---- MODULE Spec2Model ----
(***************************************************************************)
(* The study-tracking application: the answer records, the aggregates and  *)
(* the catalog of src/src/core/database.py (class DatabaseManager), the    *)
(* weak-area query behind the cache of src/src/core/cache_manager.py, and  *)
(* the sessions and summaries of src/src/core/progress_tracker.py.         *)
(*                                                                         *)
(* The SQLite file is the shared state.  Each caller works on a connection *)
(* of its own (get_connection opens one per call), so the steps of callers *)
(* interleave at statement granularity; a transaction's writes are private *)
(* to its connection until COMMIT.                                         *)
(*                                                                         *)
(* SQL NULL / Python None is NoneInt for integers, NullStr for strings and *)
(* NullReal for REAL columns.  REAL values are exact rationals [n, d].     *)
(***************************************************************************)
EXTENDS Integers, Sequences, FiniteSets, TLC

\* ------------------------------------------------------------------ bounds
\* answers handed to the API over a whole behaviour
MaxAnswers == 3
\* longest answer_records list given to bulk_record_answers
MaxBatch == 3

\* concurrent callers, one connection each
Callers == {1, 2}

\* ------------------------------------------------------------ NULL values
NoneInt == -1
NullStr == "NULL"
NullReal == [n |-> 0, d |-> 0]

\* SQL '=' : never true when an operand is NULL
SqlEqInt(a, b) == a # NoneInt /\ b # NoneInt /\ a = b
SqlEqStr(a, b) == a # NullStr /\ b # NullStr /\ a = b

\* Python truthiness of an Optional[int] and of an Optional[float]
TruthyInt(i) == i # NoneInt /\ i # 0
TruthyReal(r) == r.d # 0 /\ r.n # 0

\* ------------------------------------------------------ rational numbers
RECURSIVE GCD(_, _)
GCD(a, b) == IF b = 0 THEN a ELSE GCD(b, a % b)

Rat(n, d) == LET g == GCD(n, d) IN
             IF n = 0 THEN [n |-> 0, d |-> 1] ELSE [n |-> n \div g, d |-> d \div g]
FromInt(i) == IF i = NoneInt THEN NullReal ELSE [n |-> i, d |-> 1]
RMulInt(r, k) == Rat(r.n * k, r.d)
RAddInt(r, k) == Rat(r.n + k * r.d, r.d)
RAdd(r, s) == Rat(r.n * s.d + s.n * r.d, r.d * s.d)
RDivInt(r, k) == Rat(r.n, r.d * k)

\* ------------------------------------------------------------ the tables
VARIABLES questions, learning_records, study_statistics, sqlite_sequence,
          lock, pc, call, stat_row, txn, record_ids, outcome, submitted

\* the study_sessions table, the fields of the ProgressTracker object
\* (progress_tracker.py), the in-memory cache of cache_manager.py, and what the
\* last call of a reading or session method gave back to its caller
VARIABLES study_sessions, current_session_id, current_session_results,
          session_start_time, memory_cache, returned

client_vars == <<study_sessions, current_session_id, current_session_results,
                 session_start_time, memory_cache, returned>>

\* the Flask session of the web client (session_service.py) and the wall clock
\* that the cache reads (datetime.now() in cache_manager.py)
VARIABLES session, clock

web_vars == <<session, clock>>

vars == <<questions, learning_records, study_statistics, sqlite_sequence,
          lock, pc, call, stat_row, txn, record_ids, outcome, submitted,
          client_vars, web_vars>>

\* the question catalog: id 1 has a category, id 2 has a NULL category,
\* id 3 is not in the catalog
Catalog == (1 :> [exam_category_id |-> 1, category |-> "network", correct_answer |-> 1])
        @@ (2 :> [exam_category_id |-> 1, category |-> NullStr, correct_answer |-> 1])
QuestionIds == {1, 2, 3}

NoQuestion == [exam_category_id |-> NoneInt, category |-> NullStr, correct_answer |-> NoneInt]
NoStat == [id |-> 0, exam_category_id |-> NoneInt, category |-> NullStr,
           total_questions |-> 0, correct_answers |-> 0, incorrect_answers |-> 0,
           average_response_time |-> NullReal]

\* the committed content of the tables a transaction can write
Committed == [learning_records |-> learning_records,
              study_statistics |-> study_statistics,
              sqlite_sequence |-> sqlite_sequence]
NoTxn == [active |-> FALSE, db |-> [learning_records |-> <<>>, study_statistics |-> <<>>,
                                    sqlite_sequence |-> [learning_records |-> 0, study_statistics |-> 0]]]

Min(S) == CHOOSE x \in S : \A y \in S : x <= y

\* -------------------------------------------------------------- the SQL
\* SELECT category, exam_category_id FROM questions WHERE id = ?  (fetchone)
QuestionRow(qs, question_id) ==
    IF question_id \in DOMAIN qs THEN qs[question_id] ELSE NoQuestion

\* INSERT INTO learning_records (...): AUTOINCREMENT id, one new row
InsertRecord(d, question_id, user_answer, is_correct, response_time, study_mode) ==
    LET id == d.sqlite_sequence.learning_records + 1 IN
    [d EXCEPT !.learning_records = Append(@,
                  [id |-> id, question_id |-> question_id, user_answer |-> user_answer,
                   is_correct |-> is_correct, response_time |-> response_time,
                   study_mode |-> study_mode]),
              !.sqlite_sequence.learning_records = id]

\* SELECT ... FROM study_statistics WHERE exam_category_id = ? AND category = ?
\* (fetchone: the first matching row, NoStat when there is none)
SelectStat(ss, exam_category_id, category) ==
    LET hits == {i \in 1..Len(ss) : /\ SqlEqInt(ss[i].exam_category_id, exam_category_id)
                                    /\ SqlEqStr(ss[i].category, category)}
    IN IF hits = {} THEN NoStat ELSE ss[Min(hits)]

\* UPDATE study_statistics SET ... WHERE id = ?
UpdateStatById(d, row) ==
    [d EXCEPT !.study_statistics =
        [i \in 1..Len(@) |-> IF @[i].id = row.id THEN row ELSE @[i]]]

\* INSERT INTO study_statistics (...): AUTOINCREMENT id, one new row
InsertStat(d, exam_category_id, category, total, correct, incorrect, avg) ==
    LET id == d.sqlite_sequence.study_statistics + 1 IN
    [d EXCEPT !.study_statistics = Append(@,
                  [id |-> id, exam_category_id |-> exam_category_id, category |-> category,
                   total_questions |-> total, correct_answers |-> correct,
                   incorrect_answers |-> incorrect, average_response_time |-> avg]),
              !.sqlite_sequence.study_statistics = id]

\* ------------------------------------------- the single-record statistics
\* UpdatedStat with a slip: incorrect_answers is raised for a correct answer too
UpdatedStatCountsEveryMiss(row, is_correct, response_time) ==
    [row EXCEPT !.total_questions = @ + 1,
                !.correct_answers = @ + (IF is_correct THEN 1 ELSE 0),
                !.incorrect_answers = @ + 1]

\* _update_statistics, the branch for an existing row: the new values of the row
UpdatedStat(row, is_correct, response_time) ==
    LET total_questions == row.total_questions + 1
        avg_time == IF TruthyInt(response_time) /\ TruthyReal(row.average_response_time)
                    THEN RDivInt(RAddInt(RMulInt(row.average_response_time, row.total_questions),
                                         response_time), total_questions)
                    ELSE IF TruthyInt(response_time) THEN FromInt(response_time)
                    ELSE row.average_response_time
    IN [row EXCEPT !.total_questions = total_questions,
                   !.correct_answers = @ + (IF is_correct THEN 1 ELSE 0),
                   !.incorrect_answers = @ + (IF is_correct THEN 0 ELSE 1),
                   !.average_response_time = avg_time]

\* _update_statistics from the row it read to the write: UPDATE the row that was
\* read, or INSERT a new one when none was read
WriteStat(d, row, exam_category_id, category, is_correct, response_time) ==
    IF row # NoStat
    THEN UpdateStatById(d, UpdatedStat(row, is_correct, response_time))
    ELSE InsertStat(d, exam_category_id, category, 1,
                    IF is_correct THEN 1 ELSE 0, IF is_correct THEN 0 ELSE 1,
                    FromInt(response_time))

\* _update_statistics run without interruption on database d
update_statistics(qs, d, question_id, is_correct, response_time) ==
    LET q == QuestionRow(qs, question_id) IN
    IF question_id \notin DOMAIN qs THEN d
    ELSE WriteStat(d, SelectStat(d.study_statistics, q.exam_category_id, q.category),
                   q.exam_category_id, q.category, is_correct, response_time)

\* --------------------------------------------------- the batch statistics
\* stats_updates: one entry per (exam_category_id, category) key, in the order
\* the keys first appear in answer_records (a Python dict; None equals None)
NewGroup(q) == [exam_category_id |-> q.exam_category_id, category |-> q.category,
                total_questions |-> 0, correct_answers |-> 0, incorrect_answers |-> 0,
                total_response_time |-> 0, count |-> 0]

AddToGroup(g, record) ==
    [g EXCEPT !.total_questions = @ + 1,
              !.correct_answers = @ + (IF record.is_correct THEN 1 ELSE 0),
              !.incorrect_answers = @ + (IF record.is_correct THEN 0 ELSE 1),
              !.total_response_time = IF TruthyInt(record.response_time)
                                      THEN @ + record.response_time ELSE @,
              !.count = IF TruthyInt(record.response_time) THEN @ + 1 ELSE @]

\* InQuestionInfo with a slip: the 'continue' for unknown questions is missing
InQuestionInfoNoSkip(qs, record) == TRUE

\* whether a batch element takes part in the aggregation
InQuestionInfo(qs, record) == record.question_id \in DOMAIN qs

RECURSIVE StatsUpdates(_, _, _)
StatsUpdates(qs, answer_records, groups) ==
    IF answer_records = <<>> THEN groups
    ELSE LET record == Head(answer_records)
             q == QuestionRow(qs, record.question_id)
             at == {i \in 1..Len(groups) : /\ groups[i].exam_category_id = q.exam_category_id
                                           /\ groups[i].category = q.category}
         IN IF ~InQuestionInfo(qs, record)
            THEN StatsUpdates(qs, Tail(answer_records), groups)
            ELSE IF at = {}
            THEN StatsUpdates(qs, Tail(answer_records),
                              Append(groups, AddToGroup(NewGroup(q), record)))
            ELSE StatsUpdates(qs, Tail(answer_records),
                              [groups EXCEPT ![Min(at)] = AddToGroup(@, record)])

\* the row written for one group on top of an existing row
MergedStat(existing, updates) ==
    LET avg_response_time == IF updates.count > 0
                             THEN Rat(updates.total_response_time, updates.count)
                             ELSE NullReal
        new_total == existing.total_questions + updates.total_questions
        weighted_avg ==
            IF TruthyReal(avg_response_time) /\ TruthyReal(existing.average_response_time)
            THEN RDivInt(RAdd(RMulInt(existing.average_response_time, existing.total_questions),
                              RMulInt(avg_response_time, updates.total_questions)), new_total)
            ELSE IF TruthyReal(avg_response_time) THEN avg_response_time
            ELSE existing.average_response_time
    IN [existing EXCEPT !.total_questions = new_total,
                        !.correct_answers = @ + updates.correct_answers,
                        !.incorrect_answers = @ + updates.incorrect_answers,
                        !.average_response_time = weighted_avg]

\* one iteration of the loop over stats_updates
ApplyGroup(d, updates) ==
    LET existing == SelectStat(d.study_statistics, updates.exam_category_id, updates.category) IN
    IF existing # NoStat
    THEN UpdateStatById(d, MergedStat(existing, updates))
    ELSE InsertStat(d, updates.exam_category_id, updates.category,
                    updates.total_questions, updates.correct_answers,
                    updates.incorrect_answers,
                    IF updates.count > 0
                    THEN Rat(updates.total_response_time, updates.count) ELSE NullReal)

RECURSIVE ApplyGroups(_, _)
ApplyGroups(d, groups) ==
    IF groups = <<>> THEN d ELSE ApplyGroups(ApplyGroup(d, Head(groups)), Tail(groups))

batch_update_statistics(qs, d, answer_records) ==
    ApplyGroups(d, StatsUpdates(qs, answer_records, <<>>))

\* ------------------------------------------------------------ the inputs
StudyModes == {"practice"}
UserAnswers == {1}
\* the answers callers submit: correct and incorrect ones, with and without a
\* response time, for the categorised, the NULL-category and the unknown question
Answer(question_id, is_correct, response_time) ==
    [question_id |-> question_id, user_answer |-> 1, is_correct |-> is_correct,
     response_time |-> response_time, study_mode |-> "practice"]
Answers == {Answer(1, TRUE, 10), Answer(1, FALSE, NoneInt), Answer(1, TRUE, 20),
            Answer(2, FALSE, 10), Answer(3, TRUE, 10)}

RECURSIVE SeqsOf(_, _)
SeqsOf(S, n) == IF n = 0 THEN {<<>>}
                ELSE LET shorter == SeqsOf(S, n - 1) IN
                     shorter \cup {Append(b, x) : b \in {c \in shorter : Len(c) = n - 1}, x \in S}
Batches == SeqsOf(Answers, MaxBatch)
\* the lists of at most n answers
BatchesUpTo == [n \in 0..MaxBatch |-> {b \in Batches : Len(b) <= n}]

NoCall == [op |-> "none", answer_records |-> <<>>,
           exam_category_id |-> NoneInt, category |-> NullStr]

\* nothing has been returned yet; afterwards: the method called, the exception
\* it raised ("none" when it returned), and the value by its type (data is a
\* returned dict, <<>> when there is none; errors counts the logger.error calls
\* the method made)
NoSummary == [total_questions |-> 0, correct_answers |-> 0, incorrect_answers |-> 0,
              correct_rate |-> NullReal, average_response_time |-> NullReal,
              total_time |-> 0, categories_studied |-> {}, weak_areas |-> <<>>,
              achievements |-> <<>>]
NoReturn == [op |-> "none", raised |-> "none", rows |-> <<>>, summary |-> NoSummary,
             number |-> NoneInt, data |-> <<>>, errors |-> 0]

\* no Flask session: the session dict without the keys of a study session
NoSession == [session_id |-> NoneInt, questions |-> <<>>, current_question |-> NoneInt,
              answers |-> <<>>]

\* the state after DatabaseManager(), ProgressTracker(db) and the import of
\* cache_manager: no session, no session results, an empty cache
InitClient ==
    /\ study_sessions = <<>>
    /\ current_session_id = NoneInt
    /\ current_session_results = <<>>
    /\ session_start_time = NoneInt
    /\ memory_cache = {}
    /\ returned = NoReturn
    /\ session = NoSession
    /\ clock = 0

\* ----------------------------------------------------------------- Init
Init ==
    /\ InitClient
    /\ questions = Catalog
    /\ learning_records = <<>>
    /\ study_statistics = <<>>
    /\ sqlite_sequence = [learning_records |-> 0, study_statistics |-> 0]
    /\ lock = 0
    /\ pc = [p \in Callers |-> "idle"]
    /\ call = [p \in Callers |-> NoCall]
    /\ stat_row = [p \in Callers |-> NoStat]
    /\ txn = [p \in Callers |-> NoTxn]
    /\ record_ids = [p \in Callers |-> <<>>]
    /\ outcome = [p \in Callers |-> "none"]
    /\ submitted = 0

\* conn.commit() / COMMIT: the connection's writes become the tables
Store(d) ==
    /\ learning_records' = d.learning_records
    /\ study_statistics' = d.study_statistics
    /\ sqlite_sequence' = d.sqlite_sequence

\* -------------------------------------------------------- record_answer
\* The class body defines record_answer twice; the name is bound to the later
\* definition (database.py 1071-1080), which is the method every caller gets:
\* one INSERT and one commit, no response_time, no statistics.
RecordAnswerOn(d, question_id, user_answer, is_correct, study_mode) ==
    InsertRecord(d, question_id, user_answer, is_correct, NoneInt, study_mode)

record_answer(p, question_id, user_answer, is_correct, study_mode) ==
    /\ pc[p] = "idle"
    /\ submitted < MaxAnswers
    /\ lock = 0
    /\ Store(RecordAnswerOn(Committed, question_id, user_answer, is_correct, study_mode))
    /\ outcome' = [outcome EXCEPT ![p] = "ok"]
    /\ submitted' = submitted + 1
    /\ UNCHANGED <<questions, lock, pc, call, stat_row, txn, record_ids>>
    /\ UNCHANGED client_vars
    /\ UNCHANGED web_vars

\* --------------------------------------------------- _update_statistics
\* the call and its first statement, the SELECT on questions; an unknown
\* question returns at once
update_statistics_call(p, question_id, is_correct, response_time) ==
    /\ pc[p] = "idle"
    /\ submitted < MaxAnswers
    /\ submitted' = submitted + 1
    /\ LET q == QuestionRow(questions, question_id) IN
       IF question_id \notin DOMAIN questions
       THEN /\ outcome' = [outcome EXCEPT ![p] = "ok"]
            /\ UNCHANGED <<pc, call>>
       ELSE /\ pc' = [pc EXCEPT ![p] = "us_select"]
            /\ call' = [call EXCEPT ![p] =
                          [op |-> "_update_statistics",
                           answer_records |-> <<Answer(question_id, is_correct,
                                                       response_time)>>,
                           exam_category_id |-> q.exam_category_id,
                           category |-> q.category]]
            /\ outcome' = [outcome EXCEPT ![p] = "none"]
    /\ UNCHANGED <<questions, learning_records, study_statistics, sqlite_sequence,
                   lock, stat_row, txn, record_ids>>
    /\ UNCHANGED client_vars
    /\ UNCHANGED web_vars

\* the SELECT on study_statistics (autocommit: no lock is kept)
update_statistics_select(p) ==
    /\ pc[p] = "us_select"
    /\ stat_row' = [stat_row EXCEPT ![p] =
                      SelectStat(study_statistics, call[p].exam_category_id, call[p].category)]
    /\ pc' = [pc EXCEPT ![p] = "us_write"]
    /\ UNCHANGED <<questions, learning_records, study_statistics, sqlite_sequence,
                   lock, call, txn, record_ids, outcome, submitted>>
    /\ UNCHANGED client_vars
    /\ UNCHANGED web_vars

\* the UPDATE or INSERT computed from the row read before, and conn.commit()
update_statistics_write(p) ==
    /\ pc[p] = "us_write"
    /\ lock = 0
    /\ LET a == call[p].answer_records[1] IN
       Store(WriteStat(Committed, stat_row[p], call[p].exam_category_id,
                       call[p].category, a.is_correct, a.response_time))
    /\ pc' = [pc EXCEPT ![p] = "idle"]
    /\ call' = [call EXCEPT ![p] = NoCall]
    /\ stat_row' = [stat_row EXCEPT ![p] = NoStat]
    /\ outcome' = [outcome EXCEPT ![p] = "ok"]
    /\ UNCHANGED <<questions, lock, txn, record_ids, submitted>>
    /\ UNCHANGED client_vars
    /\ UNCHANGED web_vars

\* -------------------------------------------------- bulk_record_answers
\* the call: an empty list returns [], anything else issues BEGIN TRANSACTION
bulk_record_answers_call(p, answer_records) ==
    /\ pc[p] = "idle"
    /\ submitted + Len(answer_records) <= MaxAnswers
    /\ submitted' = submitted + Len(answer_records)
    /\ record_ids' = [record_ids EXCEPT ![p] = <<>>]
    /\ IF answer_records = <<>>
       THEN /\ outcome' = [outcome EXCEPT ![p] = "ok"]
            /\ UNCHANGED <<pc, call>>
       ELSE /\ pc' = [pc EXCEPT ![p] = "bulk_insert"]
            /\ call' = [call EXCEPT ![p] = [NoCall EXCEPT !.op = "bulk_record_answers",
                                                          !.answer_records = answer_records]]
            /\ outcome' = [outcome EXCEPT ![p] = "none"]
    /\ UNCHANGED <<questions, learning_records, study_statistics, sqlite_sequence,
                   lock, stat_row, txn>>
    /\ UNCHANGED client_vars
    /\ UNCHANGED web_vars

\* one INSERT of the loop; the first write of the transaction takes the
\* database write lock, which is kept until COMMIT or ROLLBACK
bulk_insert(p) ==
    /\ pc[p] = "bulk_insert"
    /\ IF txn[p].active THEN lock = p ELSE lock = 0
    /\ lock' = p
    /\ LET record == call[p].answer_records[Len(record_ids[p]) + 1]
           before == IF txn[p].active THEN txn[p].db ELSE Committed
           after == InsertRecord(before, record.question_id, record.user_answer,
                                 record.is_correct, record.response_time,
                                 record.study_mode)
       IN /\ txn' = [txn EXCEPT ![p] = [active |-> TRUE, db |-> after]]
          /\ record_ids' = [record_ids EXCEPT ![p] =
                              Append(@, after.sqlite_sequence.learning_records)]
          /\ pc' = [pc EXCEPT ![p] = IF Len(record_ids[p]) + 1 = Len(call[p].answer_records)
                                     THEN "bulk_stats" ELSE "bulk_insert"]
    /\ UNCHANGED <<questions, learning_records, study_statistics, sqlite_sequence,
                   call, stat_row, outcome, submitted>>
    /\ UNCHANGED client_vars
    /\ UNCHANGED web_vars

\* _batch_update_statistics inside the transaction
bulk_stats(p) ==
    /\ pc[p] = "bulk_stats"
    /\ txn' = [txn EXCEPT ![p].db =
                 batch_update_statistics(questions, @, call[p].answer_records)]
    /\ pc' = [pc EXCEPT ![p] = "bulk_commit"]
    /\ UNCHANGED <<questions, learning_records, study_statistics, sqlite_sequence,
                   lock, call, stat_row, record_ids, outcome, submitted>>
    /\ UNCHANGED client_vars
    /\ UNCHANGED web_vars

\* COMMIT and return record_ids (the local list is gone with the call)
bulk_commit(p) ==
    /\ pc[p] = "bulk_commit"
    /\ Store(txn[p].db)
    /\ lock' = 0
    /\ txn' = [txn EXCEPT ![p] = NoTxn]
    /\ pc' = [pc EXCEPT ![p] = "idle"]
    /\ call' = [call EXCEPT ![p] = NoCall]
    /\ outcome' = [outcome EXCEPT ![p] = "ok"]
    /\ record_ids' = [record_ids EXCEPT ![p] = <<>>]
    /\ UNCHANGED <<questions, stat_row, submitted>>
    /\ UNCHANGED client_vars
    /\ UNCHANGED web_vars

\* Rollback with a slip: the handler commits what the transaction has written
RollbackKeepsWrites(committed, working) == working

\* what ROLLBACK leaves in the tables: the committed content, none of the
\* transaction's writes
Rollback(committed, working) == committed

\* an exception inside the try block (a failing INSERT, a failing statistics
\* statement, a failing COMMIT): ROLLBACK, log, re-raise
bulk_except(p) ==
    /\ pc[p] \in {"bulk_insert", "bulk_stats", "bulk_commit"}
    /\ Store(Rollback(Committed, txn[p].db))
    /\ lock' = IF lock = p THEN 0 ELSE lock
    /\ txn' = [txn EXCEPT ![p] = NoTxn]
    /\ record_ids' = [record_ids EXCEPT ![p] = <<>>]
    /\ pc' = [pc EXCEPT ![p] = "idle"]
    /\ call' = [call EXCEPT ![p] = NoCall]
    /\ outcome' = [outcome EXCEPT ![p] = "error"]
    /\ UNCHANGED <<questions, stat_row, submitted>>
    /\ UNCHANGED client_vars
    /\ UNCHANGED web_vars

\* ----------------------------------------------------------------- Next
\* the longest list that the answers not yet submitted allow
Budget == IF MaxAnswers - submitted < MaxBatch THEN MaxAnswers - submitted ELSE MaxBatch

Next ==
    \/ \E p \in Callers, q \in QuestionIds, ua \in UserAnswers, ic \in BOOLEAN, m \in StudyModes :
          record_answer(p, q, ua, ic, m)
    \/ \E p \in Callers, a \in Answers :
          update_statistics_call(p, a.question_id, a.is_correct, a.response_time)
    \/ \E p \in Callers : update_statistics_select(p)
    \/ \E p \in Callers : update_statistics_write(p)
    \/ \E p \in Callers, b \in BatchesUpTo[Budget] : bulk_record_answers_call(p, b)
    \/ \E p \in Callers : bulk_insert(p)
    \/ \E p \in Callers : bulk_stats(p)
    \/ \E p \in Callers : bulk_commit(p)
    \/ \E p \in Callers : bulk_except(p)

Spec == Init /\ [][Next]_vars

\* the methods the rest of the application calls: record_answer and
\* bulk_record_answers, without direct calls of _update_statistics
NextApi ==
    \/ \E p \in Callers, q \in QuestionIds, ua \in UserAnswers, ic \in BOOLEAN, m \in StudyModes :
          record_answer(p, q, ua, ic, m)
    \/ \E p \in Callers, b \in BatchesUpTo[Budget] : bulk_record_answers_call(p, b)
    \/ \E p \in Callers : bulk_insert(p)
    \/ \E p \in Callers : bulk_stats(p)
    \/ \E p \in Callers : bulk_commit(p)
    \/ \E p \in Callers : bulk_except(p)

SpecApi == Init /\ [][NextApi]_vars

\* ------------------------------------------------------------ type check
TypeOK ==
    /\ lock \in Callers \cup {0}
    /\ submitted \in 0..MaxAnswers
    /\ \A p \in Callers : pc[p] \in {"idle", "us_select", "us_write",
                                     "bulk_insert", "bulk_stats", "bulk_commit"}

\* ------------------------------------------------ whole calls, one by one
\* the answers applied to database d one after the other by record_answer
RECURSIVE RecordEach(_, _)
RecordEach(d, answer_records) ==
    IF answer_records = <<>> THEN d
    ELSE LET a == Head(answer_records) IN
         RecordEach(RecordAnswerOn(d, a.question_id, a.user_answer, a.is_correct, a.study_mode),
                    Tail(answer_records))

\* the answers applied one after the other by _update_statistics
RECURSIVE UpdateEach(_, _, _)
UpdateEach(qs, d, answer_records) ==
    IF answer_records = <<>> THEN d
    ELSE LET a == Head(answer_records) IN
         UpdateEach(qs, update_statistics(qs, d, a.question_id, a.is_correct, a.response_time),
                    Tail(answer_records))

\* one bulk_record_answers call that runs to its COMMIT without interruption
RECURSIVE InsertEach(_, _)
InsertEach(d, answer_records) ==
    IF answer_records = <<>> THEN d
    ELSE LET a == Head(answer_records) IN
         InsertEach(InsertRecord(d, a.question_id, a.user_answer, a.is_correct,
                                 a.response_time, a.study_mode), Tail(answer_records))

BulkOn(qs, d, answer_records) ==
    batch_update_statistics(qs, InsertEach(d, answer_records), answer_records)

\* --------------------------------------------- reading the aggregate table
\* the rows of one (exam_category_id, category) key, a NULL category being a key
RowsFor(ss, exam_category_id, category) ==
    {i \in 1..Len(ss) : /\ ss[i].exam_category_id = exam_category_id
                        /\ ss[i].category = category}

RECURSIVE SumOver(_, _, _)
SumOver(ss, rows, field) ==
    IF rows = {} THEN 0
    ELSE LET i == Min(rows) IN ss[i][field] + SumOver(ss, rows \ {i}, field)

Counters(ss, exam_category_id, category) ==
    LET rows == RowsFor(ss, exam_category_id, category) IN
    [total_questions |-> SumOver(ss, rows, "total_questions"),
     correct_answers |-> SumOver(ss, rows, "correct_answers"),
     incorrect_answers |-> SumOver(ss, rows, "incorrect_answers")]

\* the keys of the catalog
Keys == {[exam_category_id |-> questions[q].exam_category_id,
          category |-> questions[q].category] : q \in DOMAIN questions}
KeyOf(question_id) == [exam_category_id |-> questions[question_id].exam_category_id,
                       category |-> questions[question_id].category]

\* the stored records whose question belongs to a key
RecordsFor(lr, k) ==
    {i \in 1..Len(lr) : lr[i].question_id \in DOMAIN questions /\ KeyOf(lr[i].question_id) = k}

\* a bulk call that has been made and has not written yet
BulkStarting(p) == pc[p] = "bulk_insert" /\ ~txn[p].active

\* the answers of a list all belong to one key of the catalog
OneCategory(answer_records) ==
    /\ answer_records # <<>>
    /\ \A i \in 1..Len(answer_records) :
          /\ answer_records[i].question_id \in DOMAIN questions
          /\ KeyOf(answer_records[i].question_id) = KeyOf(answer_records[1].question_id)

\* =================================================================== C1
\* C1: every record_answer call for a question of the catalog raises
\* total_questions of the question's key by exactly 1 and exactly one of
\* correct_answers (is_correct) and incorrect_answers (otherwise) by 1.
C1_RecordAnswerCounts ==
    [][\A p \in Callers, q \in DOMAIN questions, ua \in UserAnswers,
          ic \in BOOLEAN, m \in StudyModes :
          record_answer(p, q, ua, ic, m) =>
             LET k == KeyOf(q)
                 before == Counters(study_statistics, k.exam_category_id, k.category)
                 after == Counters(study_statistics', k.exam_category_id, k.category)
             IN /\ after.total_questions = before.total_questions + 1
                /\ after.correct_answers = before.correct_answers + (IF ic THEN 1 ELSE 0)
                /\ after.incorrect_answers = before.incorrect_answers + (IF ic THEN 0 ELSE 1)
      ]_vars

\* =================================================================== C2
\* C2: from the state a bulk call starts in, the answers of one category
\* applied one by one with record_answer leave the same three counters as the
\* one bulk_record_answers call.
C2_BatchSingleCounters ==
    \A p \in Callers :
       (BulkStarting(p) /\ OneCategory(call[p].answer_records)) =>
          LET b == call[p].answer_records
              k == KeyOf(b[1].question_id)
          IN Counters(RecordEach(Committed, b).study_statistics,
                      k.exam_category_id, k.category)
             = Counters(BulkOn(questions, Committed, b).study_statistics,
                        k.exam_category_id, k.category)

\* =================================================================== C3
\* C3: for answers of one category of which some carry a response time and some
\* do not, the average_response_time left by one bulk call equals the one left
\* by the same answers going one by one through the single-record update,
\* whether or not the row existed before.
SomeTimed(answer_records) ==
    /\ \E i \in 1..Len(answer_records) : answer_records[i].response_time # NoneInt
    /\ \E i \in 1..Len(answer_records) : answer_records[i].response_time = NoneInt

Averages(ss) == [i \in 1..Len(ss) |-> ss[i].average_response_time]

C3_BatchSingleMean ==
    \A p \in Callers :
       (BulkStarting(p) /\ OneCategory(call[p].answer_records)
                        /\ SomeTimed(call[p].answer_records)) =>
          Averages(UpdateEach(questions, Committed, call[p].answer_records).study_statistics)
          = Averages(BulkOn(questions, Committed, call[p].answer_records).study_statistics)

\* =================================================================== C4
\* C4: after the answers of one category have been recorded, starting with no
\* row for the category, average_response_time is the mean of the response
\* times of exactly the answers that carry one (the sum of the times over the
\* number of time-bearing answers), on the single-record path and on the batch
\* path alike.
RECURSIVE SumTimes(_)
SumTimes(answer_records) ==
    IF answer_records = <<>> THEN 0
    ELSE (IF Head(answer_records).response_time # NoneInt
          THEN Head(answer_records).response_time ELSE 0) + SumTimes(Tail(answer_records))

MeanTime(answer_records) ==
    LET timed == {i \in 1..Len(answer_records) : answer_records[i].response_time # NoneInt} IN
    IF timed = {} THEN NullReal ELSE Rat(SumTimes(answer_records), Cardinality(timed))

AveragesFor(ss, k) ==
    {ss[i].average_response_time : i \in RowsFor(ss, k.exam_category_id, k.category)}

C4_MeanOfTimedAnswers ==
    \A p \in Callers :
       LET b == call[p].answer_records IN
       (BulkStarting(p) /\ OneCategory(b)
          /\ RowsFor(study_statistics, KeyOf(b[1].question_id).exam_category_id,
                     KeyOf(b[1].question_id).category) = {}) =>
          /\ AveragesFor(UpdateEach(questions, Committed, b).study_statistics,
                         KeyOf(b[1].question_id)) = {MeanTime(b)}
          /\ AveragesFor(BulkOn(questions, Committed, b).study_statistics,
                         KeyOf(b[1].question_id)) = {MeanTime(b)}

\* =================================================================== C5
\* C5: every row of study_statistics, committed or written inside a running
\* transaction, has non-negative counters with
\* total_questions = correct_answers + incorrect_answers.
RowConsistent(row) ==
    /\ row.total_questions >= 0 /\ row.correct_answers >= 0 /\ row.incorrect_answers >= 0
    /\ row.total_questions = row.correct_answers + row.incorrect_answers

C5_CountersConsistent ==
    /\ \A i \in 1..Len(study_statistics) : RowConsistent(study_statistics[i])
    /\ \A p \in Callers : \A i \in 1..Len(txn[p].db.study_statistics) :
          RowConsistent(txn[p].db.study_statistics[i])

\* a row that several answers, correct and incorrect, have been merged into
C5_Witness ==
    \E i \in 1..Len(study_statistics) :
       /\ study_statistics[i].total_questions >= 3
       /\ study_statistics[i].correct_answers >= 1
       /\ study_statistics[i].incorrect_answers >= 1

\* =================================================================== C6
\* C6: no write-aggregate step of a caller loses an update: the write of each
\* _update_statistics call leaves total_questions of its key one higher than
\* it was just before the write, so two callers leave it higher by two.
C6_NoLostUpdate ==
    [][\A p \in Callers :
          update_statistics_write(p) =>
             Counters(study_statistics', call[p].exam_category_id,
                      call[p].category).total_questions
             = Counters(study_statistics, call[p].exam_category_id,
                        call[p].category).total_questions + 1
      ]_vars

\* =================================================================== C7
\* C7: study_statistics holds at most one row per (exam_category_id, category)
\* key, the key with a NULL category included.
C7_OneRowPerKey ==
    \A i, j \in 1..Len(study_statistics) :
       (/\ study_statistics[i].exam_category_id = study_statistics[j].exam_category_id
        /\ study_statistics[i].category = study_statistics[j].category) => i = j

\* =================================================================== C8
\* C8: bulk_record_answers is all-or-nothing.  While a call is running, a step
\* of the call leaves the committed tables as they are, its failure included,
\* except the step that returns normally, which puts the whole batch (all its
\* records and all its aggregate updates) into the tables at once.
BulkPcs == {"bulk_insert", "bulk_stats", "bulk_commit"}

C8_BulkAllOrNothing ==
    [][\A p \in Callers :
          pc[p] \in BulkPcs =>
             IF pc'[p] = "idle" /\ outcome'[p] = "ok"
             THEN Committed' = BulkOn(questions, Committed, call[p].answer_records)
             ELSE (pc'[p] # pc[p] \/ txn'[p] # txn[p]) => Committed' = Committed
      ]_vars

\* a call has failed and been rolled back next to committed aggregates, and no
\* transaction is left open
C8_Witness ==
    /\ \E p \in Callers : outcome[p] = "error" /\ pc[p] = "idle"
    /\ study_statistics # <<>>
    /\ learning_records # <<>>
    /\ lock = 0

\* =================================================================== C9
\* C9: no state has a stored record of a catalog question whose aggregate has
\* not been incremented: each key counts at least its stored records.
C9_RecordAndAggregateTogether ==
    \A k \in Keys :
       Cardinality(RecordsFor(learning_records, k))
       <= Counters(study_statistics, k.exam_category_id, k.category).total_questions

\* ================================================================== C10
\* C10: an answer to a question outside the catalog is stored and changes no
\* row of study_statistics, in record_answer and in bulk_record_answers (and
\* _update_statistics returns at once for it); the other answers of the batch
\* are aggregated as if the unknown ones were not in the list.
InCatalog(a) == a.question_id \in DOMAIN questions

StoredAtEnd(lr, answer_records) ==
    /\ Len(lr) >= Len(answer_records)
    /\ \A i \in 1..Len(answer_records) :
          LET r == lr[Len(lr) - Len(answer_records) + i] IN
          /\ r.question_id = answer_records[i].question_id
          /\ r.is_correct = answer_records[i].is_correct

C10_UnknownQuestionStoredNotCounted ==
    [][/\ \A p \in Callers, q \in QuestionIds \ DOMAIN questions, ua \in UserAnswers,
             ic \in BOOLEAN, m \in StudyModes :
             record_answer(p, q, ua, ic, m) =>
                /\ Len(learning_records') = Len(learning_records) + 1
                /\ StoredAtEnd(learning_records', <<Answer(q, ic, NoneInt)>>)
                /\ study_statistics' = study_statistics
       /\ \A p \in Callers, a \in {x \in Answers : ~InCatalog(x)} :
             update_statistics_call(p, a.question_id, a.is_correct, a.response_time) =>
                /\ study_statistics' = study_statistics
                /\ pc'[p] = "idle"
       /\ \A p \in Callers :
             bulk_commit(p) =>
                /\ Len(learning_records') = Len(learning_records) + Len(call[p].answer_records)
                /\ StoredAtEnd(learning_records', call[p].answer_records)
                /\ study_statistics' =
                      batch_update_statistics(questions, Committed,
                          SelectSeq(call[p].answer_records, InCatalog)).study_statistics
      ]_vars

\* a batch with an unknown question followed by a catalog question is stored,
\* and only the catalog question is counted
C10_Witness ==
    \E i \in 1..Len(learning_records) - 1 :
       /\ learning_records[i].question_id \notin DOMAIN questions
       /\ learning_records[i].response_time # NoneInt
       /\ learning_records[i + 1].question_id \in DOMAIN questions
       /\ learning_records[i + 1].response_time # NoneInt
       /\ Len(study_statistics) = 1
       /\ study_statistics[1].total_questions = 1

\* ================================================== the question catalog
\* a key that the question_data dict does not hold
AbsentInt == -2
AbsentStr == "ABSENT"

\* the dicts given to update_question: a new correct_answer, and the dict
\* without any updatable field
Choices == {1, 2}
QuestionData == {[correct_answer |-> c, category |-> AbsentStr] : c \in Choices}
                \cup {[correct_answer |-> AbsentInt, category |-> AbsentStr]}

\* the set_clause built from update_fields
SetClause(question_data) ==
    (IF question_data.correct_answer # AbsentInt THEN {"correct_answer"} ELSE {})
    \cup (IF question_data.category # AbsentStr THEN {"category"} ELSE {})

\* UpdateQuestionOn with a slip: the stored answers of the question are graded again
UpdateQuestionRegrades(w, question_id, question_data) ==
    LET lr == w.learning_records IN
    [w EXCEPT !.learning_records =
        [i \in 1..Len(lr) |->
            IF lr[i].question_id = question_id /\ "correct_answer" \in SetClause(question_data)
            THEN [lr[i] EXCEPT !.is_correct = (lr[i].user_answer = question_data.correct_answer)]
            ELSE lr[i]]]

\* what update_question leaves of the tables other than questions: its one
\* statement is UPDATE questions SET ... WHERE id = ?
UpdateQuestionOn(w, question_id, question_data) == w

\* UPDATE questions SET <set_clause> WHERE id = ?
UpdateQuestionRow(qs, question_id, question_data) ==
    [q \in DOMAIN qs |->
        IF q # question_id THEN qs[q]
        ELSE [qs[q] EXCEPT
                !.correct_answer = IF "correct_answer" \in SetClause(question_data)
                                   THEN question_data.correct_answer ELSE @,
                !.category = IF "category" \in SetClause(question_data)
                             THEN question_data.category ELSE @]]

update_question(question_id, question_data) ==
    /\ \A p \in Callers : pc[p] = "idle"
    /\ lock = 0
    /\ IF SetClause(question_data) = {}
       THEN UNCHANGED <<questions, learning_records, study_statistics, sqlite_sequence>>
       ELSE /\ questions' = UpdateQuestionRow(questions, question_id, question_data)
            /\ Store(UpdateQuestionOn(Committed, question_id, question_data))
    /\ returned' = [NoReturn EXCEPT !.op = "update_question", !.number = question_id]
    /\ UNCHANGED <<lock, pc, call, stat_row, txn, record_ids, outcome, submitted>>
    /\ UNCHANGED <<study_sessions, current_session_id, current_session_results,
                   session_start_time, memory_cache>>
    /\ UNCHANGED web_vars

\* DELETE FROM learning_records WHERE question_id = ?
DeleteRecordsOf(lr, question_id) ==
    SelectSeq(lr, LAMBDA r : r.question_id # question_id)

\* DELETE FROM questions WHERE id = ?
DeleteQuestionRow(qs, question_id) ==
    [q \in DOMAIN qs \ {question_id} |-> qs[q]]

delete_question(question_id) ==
    /\ \A p \in Callers : pc[p] = "idle"
    /\ lock = 0
    /\ learning_records' = DeleteRecordsOf(learning_records, question_id)
    /\ questions' = DeleteQuestionRow(questions, question_id)
    /\ returned' = [NoReturn EXCEPT !.op = "delete_question", !.number = question_id]
    /\ UNCHANGED <<study_statistics, sqlite_sequence,
                   lock, pc, call, stat_row, txn, record_ids, outcome, submitted>>
    /\ UNCHANGED <<study_sessions, current_session_id, current_session_results,
                   session_start_time, memory_cache>>
    /\ UNCHANGED web_vars

\* DELETE FROM learning_records WHERE attempt_date < cutoff.  attempt_date is
\* the insertion time, so the rows older than the cutoff are the n rows with the
\* smallest ids, n depending on days and on the clock.
OlderThanCutoff(lr, n) == SubSeq(lr, n + 1, Len(lr))

cleanup_old_records(n) ==
    /\ \A p \in Callers : pc[p] = "idle"
    /\ lock = 0
    /\ n \in 0..Len(learning_records)
    /\ learning_records' = OlderThanCutoff(learning_records, n)
    /\ returned' = [NoReturn EXCEPT !.op = "cleanup_old_records", !.number = n]
    /\ UNCHANGED <<questions, study_statistics, sqlite_sequence,
                   lock, pc, call, stat_row, txn, record_ids, outcome, submitted>>
    /\ UNCHANGED <<study_sessions, current_session_id, current_session_results,
                   session_start_time, memory_cache>>
    /\ UNCHANGED web_vars

\* one client that records answers while the catalog is maintained: question 1,
\* which has stored answers, and question 3, which the catalog does not hold
NextCatalog ==
    \/ \E ua \in UserAnswers, ic \in BOOLEAN, m \in StudyModes :
          record_answer(1, 1, ua, ic, m)
    \/ \E b \in BatchesUpTo[Min({1, Budget})] : bulk_record_answers_call(1, b)
    \/ bulk_insert(1)
    \/ bulk_stats(1)
    \/ bulk_commit(1)
    \/ bulk_except(1)
    \/ \E q \in {1, 3}, d \in QuestionData : update_question(q, d)
    \/ \E q \in {1, 3} : delete_question(q)
    \/ \E n \in 0..MaxAnswers : cleanup_old_records(n)

SpecCatalog == Init /\ [][NextCatalog]_vars

\* ================================================================== C11
\* C11: a stored record never changes: in every step, each record that is
\* still stored afterwards (found by its id) has the fields it had before, and
\* update_question leaves the whole learning_records table as it is, so
\* is_correct keeps the evaluation made when the record was written.
RecordById(lr, id) == lr[CHOOSE i \in 1..Len(lr) : lr[i].id = id]
RecordIds(lr) == {lr[i].id : i \in 1..Len(lr)}

C11_RecordsImmutable ==
    [][/\ \A id \in RecordIds(learning_records) \cap RecordIds(learning_records') :
             RecordById(learning_records', id) = RecordById(learning_records, id)
       /\ \A q \in QuestionIds, d \in QuestionData :
             update_question(q, d) => learning_records' = learning_records
      ]_vars

\* update_question has just changed the correct answer of a question, and a
\* stored answer that was evaluated as correct no longer equals it
C11_Witness ==
    /\ returned.op = "update_question"
    /\ \E i \in 1..Len(learning_records) :
          /\ learning_records[i].question_id = returned.number
          /\ learning_records[i].question_id \in DOMAIN questions
          /\ learning_records[i].is_correct
          /\ learning_records[i].user_answer # questions[learning_records[i].question_id].correct_answer

\* ====================================================== get_weak_areas
\* exam_categories as _insert_initial_data fills it: the row id is the position
ExamCategories == <<[code |-> "FE", name |-> "FE exam"], [code |-> "AP", name |-> "AP exam"],
                    [code |-> "IP", name |-> "IP exam"], [code |-> "SG", name |-> "SG exam"]>>

\* Python truthiness of an Optional[str]
TruthyStr(x) == x # NullStr /\ x # ""

\* ROUND(correct_answers * 100.0 / total_questions, 1), in tenths of a percent:
\* SQLite rounds to the nearest tenth, halves away from zero
RoundedRate(row) == (2000 * row.correct_answers + row.total_questions)
                    \div (2 * row.total_questions)

\* PassesGate with a slip: the sample gate is 2
PassesGateAtTwo(row) == row.total_questions >= 2

\* WHERE ss.total_questions >= 3
PassesGate(row) == row.total_questions >= 3

\* FROM study_statistics ss JOIN exam_categories ec ON ss.exam_category_id = ec.id
\* WHERE ss.total_questions >= 3 [AND ec.code = ?] : the positions of the rows
WeakAreaRows(ss, exam_type) ==
    {i \in 1..Len(ss) :
        /\ ss[i].exam_category_id \in 1..Len(ExamCategories)
        /\ PassesGate(ss[i])
        /\ TruthyStr(exam_type) => ExamCategories[ss[i].exam_category_id].code = exam_type}

\* the dict of one result row; correct_rate in tenths of a percent
WeakArea(row) ==
    [exam_name |-> ExamCategories[row.exam_category_id].name,
     category |-> row.category,
     total_questions |-> row.total_questions,
     correct_answers |-> row.correct_answers,
     incorrect_answers |-> row.incorrect_answers,
     correct_rate |-> RoundedRate(row)]

\* ORDER BY correct_rate ASC, ss.total_questions DESC: every order of the rows
\* that agrees with the two sort keys (rows equal in both come in any order)
InOrder(a, b) ==
    \/ a.correct_rate < b.correct_rate
    \/ a.correct_rate = b.correct_rate /\ a.total_questions >= b.total_questions

Orderings(ss, rows) ==
    {o \in [1..Cardinality(rows) -> rows] :
        /\ \A i, j \in DOMAIN o : i # j => o[i] # o[j]
        /\ \A i, j \in DOMAIN o : i < j => InOrder(WeakArea(ss[o[i]]), WeakArea(ss[o[j]]))}

\* if limit: sql += " LIMIT ?"  (a negative LIMIT is no limit in SQLite)
Limited(rows, limit) ==
    IF ~TruthyInt(limit) \/ limit < 0 THEN rows
    ELSE SubSeq(rows, 1, Min({limit, Len(rows)}))

\* the lists the query can return
WeakAreaLists(ss, exam_type, limit) ==
    {Limited([i \in DOMAIN o |-> WeakArea(ss[o[i]])], limit) :
        o \in Orderings(ss, WeakAreaRows(ss, exam_type))}

\* --- the cache in front of it: cached_method(ttl=600, key_prefix="weak")
\* _generate_cache_key: the function name and the arguments after self
CacheKey(func, exam_type, limit) == [func |-> func, exam_type |-> exam_type, limit |-> limit]

\* CacheManager.get on the memory cache: the entries that are served
Live(cache, key) == {e \in cache : e.key = key /\ ~e.expired}

\* CacheManager.set: the entry of the key is replaced
CacheSet(cache, key, value) ==
    {e \in cache : e.key # key} \cup {[key |-> key, value |-> value, expired |-> FALSE]}

\* cache entries kept at a time
MaxCached == 1

\* the argument values of the callers
ExamTypes == {NullStr, "FE"}
Limits == {NoneInt, 0, 1}

get_weak_areas(exam_type, limit) ==
    LET key == CacheKey("get_weak_areas", exam_type, limit) IN
    /\ \A p \in Callers : pc[p] = "idle"
    /\ \/ \E e \in memory_cache : e.key = key
       \/ Cardinality(memory_cache) < MaxCached
    /\ IF Live(memory_cache, key) # {}
       THEN /\ \E e \in Live(memory_cache, key) :
                 returned' = [NoReturn EXCEPT !.op = "get_weak_areas", !.rows = e.value,
                                              !.number = limit]
            /\ UNCHANGED memory_cache
       ELSE \E result \in WeakAreaLists(study_statistics, exam_type, limit) :
               /\ returned' = [NoReturn EXCEPT !.op = "get_weak_areas", !.rows = result,
                                               !.number = limit]
               /\ memory_cache' = CacheSet(memory_cache, key, result)
    /\ UNCHANGED <<questions, learning_records, study_statistics, sqlite_sequence,
                   lock, pc, call, stat_row, txn, record_ids, outcome, submitted>>
    /\ UNCHANGED <<study_sessions, current_session_id, current_session_results,
                   session_start_time>>
    /\ UNCHANGED web_vars

\* the clock passes expires_at of an entry
ttl_passes ==
    /\ \E e \in memory_cache :
          /\ ~e.expired
          /\ memory_cache' = (memory_cache \ {e}) \cup {[e EXCEPT !.expired = TRUE]}
    /\ UNCHANGED <<questions, learning_records, study_statistics, sqlite_sequence,
                   lock, pc, call, stat_row, txn, record_ids, outcome, submitted>>
    /\ UNCHANGED <<study_sessions, current_session_id, current_session_results,
                   session_start_time, returned>>
    /\ UNCHANGED web_vars

\* the aggregate rows the reader finds: a category below the sample gate with no
\* correct answer, one at the gate, one without a category, one of another exam,
\* and two whose rates differ by less than a tenth of a percent
StatRow(id, exam_category_id, category, total, correct) ==
    [id |-> id, exam_category_id |-> exam_category_id, category |-> category,
     total_questions |-> total, correct_answers |-> correct,
     incorrect_answers |-> total - correct, average_response_time |-> NullReal]

StatTables ==
    {<<>>,
     <<StatRow(1, 1, "network", 2, 0)>>,
     <<StatRow(1, 1, "network", 2, 0), StatRow(2, 1, "database", 3, 1)>>,
     <<StatRow(1, 1, "security", 23, 22), StatRow(2, 1, "algorithm", 47, 45)>>,
     <<StatRow(1, 1, "database", 3, 1), StatRow(2, 2, "database", 6, 2),
       StatRow(3, 1, NullStr, 4, 0)>>,
     <<StatRow(1, 1, "network", 2, 0), StatRow(2, 1, "database", 3, 0),
       StatRow(3, 1, "security", 3, 3)>>}

InitWeak ==
    /\ InitClient
    /\ questions = Catalog
    /\ learning_records = <<>>
    /\ study_statistics \in StatTables
    /\ sqlite_sequence = [learning_records |-> 0, study_statistics |-> Len(study_statistics)]
    /\ lock = 0
    /\ pc = [p \in Callers |-> "idle"]
    /\ call = [p \in Callers |-> NoCall]
    /\ stat_row = [p \in Callers |-> NoStat]
    /\ txn = [p \in Callers |-> NoTxn]
    /\ record_ids = [p \in Callers |-> <<>>]
    /\ outcome = [p \in Callers |-> "none"]
    /\ submitted = 0

\* readers of the weak areas next to a client that answers question 1
NextWeak ==
    \/ \E t \in ExamTypes, l \in Limits : get_weak_areas(t, l)
    \/ ttl_passes
    \/ \E ic \in BOOLEAN :
          submitted < MaxAnswers /\ bulk_record_answers_call(1, <<Answer(1, ic, NoneInt)>>)
    \/ bulk_insert(1)
    \/ bulk_stats(1)
    \/ bulk_commit(1)

SpecWeak == InitWeak /\ [][NextWeak]_vars

\* the exact correct rate of a returned row
ExactRate(a) == Rat(a.correct_answers, a.total_questions)
RLess(r, s) == r.n * s.d < s.n * r.d

\* ================================================================== C12
\* C12: get_weak_areas returns no category whose aggregate row has
\* total_questions < 3, whatever its rate, and every row it returns carries
\* total_questions >= 3 and belongs to an aggregate row that has at least 3.
C12_SampleGate ==
    [][\A t \in ExamTypes, l \in Limits :
          get_weak_areas(t, l) =>
             /\ \A k \in DOMAIN returned'.rows :
                   /\ returned'.rows[k].total_questions >= 3
                   /\ \E i \in 1..Len(study_statistics) :
                         /\ ExamCategories[study_statistics[i].exam_category_id].name
                               = returned'.rows[k].exam_name
                         /\ study_statistics[i].category = returned'.rows[k].category
                         /\ study_statistics[i].total_questions >= 3
             /\ \A i \in 1..Len(study_statistics) :
                   study_statistics[i].total_questions < 3 =>
                      \A k \in DOMAIN returned'.rows :
                         ~(/\ ExamCategories[study_statistics[i].exam_category_id].name
                                 = returned'.rows[k].exam_name
                           /\ study_statistics[i].category = returned'.rows[k].category)
      ]_vars

\* a call has returned weak areas while a category with 2 attempts and no
\* correct answer is in the table, and that category is not among them
C12_Witness ==
    /\ returned.op = "get_weak_areas"
    /\ returned.rows # <<>>
    /\ \E i \in 1..Len(study_statistics) :
          /\ study_statistics[i].total_questions = 2
          /\ study_statistics[i].correct_answers = 0
          /\ \A k \in DOMAIN returned.rows :
                returned.rows[k].category # study_statistics[i].category

\* ================================================================== C13
\* C13: the returned list is in ascending order of the exact rate
\* correct_answers / total_questions, and rows of equal exact rate are in
\* descending order of total_questions: no row with a strictly higher exact
\* rate comes before a row with a strictly lower one.
C13_OrderedByExactRate ==
    [][\A t \in ExamTypes, l \in Limits :
          get_weak_areas(t, l) =>
             \A i, j \in DOMAIN returned'.rows :
                i < j =>
                   /\ ~RLess(ExactRate(returned'.rows[j]), ExactRate(returned'.rows[i]))
                   /\ ExactRate(returned'.rows[i]) = ExactRate(returned'.rows[j])
                         => returned'.rows[i].total_questions >= returned'.rows[j].total_questions
      ]_vars

\* ================================================================== C14
\* C14: for every integer limit, 0 included, the returned list has at most
\* limit rows, and a list read from the table is the first limit rows of the
\* full ordered list.
C14_AtMostLimit ==
    [][\A t \in ExamTypes, l \in Limits \ {NoneInt} :
          get_weak_areas(t, l) =>
             /\ Len(returned'.rows) <= l
             /\ Live(memory_cache, CacheKey("get_weak_areas", t, l)) = {} =>
                   \E full \in WeakAreaLists(study_statistics, t, NoneInt) :
                      returned'.rows = SubSeq(full, 1, Min({l, Len(full)}))
      ]_vars

\* ==================================================== the session summary
\* progress_tracker.py: the StudyResult of an answer
StudyResult(question_id, user_answer, correct_answer, response_time, category) ==
    [question_id |-> question_id, user_answer |-> user_answer,
     correct_answer |-> correct_answer, is_correct |-> (user_answer = correct_answer),
     response_time |-> IF TruthyInt(response_time) THEN response_time ELSE 0,
     category |-> category, difficulty_level |-> 2]

RECURSIVE CountCorrect(_)
CountCorrect(results) ==
    IF results = <<>> THEN 0
    ELSE (IF Head(results).is_correct THEN 1 ELSE 0) + CountCorrect(Tail(results))

\* [r.response_time for r in results if r.response_time > 0]
ResponseTimes(results) ==
    LET timed == SelectSeq(results, LAMBDA r : r.response_time > 0) IN
    [i \in 1..Len(timed) |-> timed[i].response_time]

RECURSIVE SumSeq(_)
SumSeq(xs) == IF xs = <<>> THEN 0 ELSE Head(xs) + SumSeq(Tail(xs))

\* statistics.mean(response_times) if response_times else 0
MeanOrZero(xs) == IF xs = <<>> THEN FromInt(0) ELSE Rat(SumSeq(xs), Len(xs))

\* _calculate_max_streak: the loop with max_streak and current_streak
RECURSIVE MaxStreakFrom(_, _, _)
MaxStreakFrom(results, max_streak, current_streak) ==
    IF results = <<>> THEN max_streak
    ELSE IF Head(results).is_correct
         THEN MaxStreakFrom(Tail(results),
                            IF current_streak + 1 > max_streak THEN current_streak + 1
                            ELSE max_streak,
                            current_streak + 1)
         ELSE MaxStreakFrom(Tail(results), max_streak, 0)

CalculateMaxStreak(results) == MaxStreakFrom(results, 0, 0)

\* _identify_weak_areas_in_session: category_stats in the order the categories
\* first appear, then those with at least 3 answers and a rate below 0.6
RECURSIVE CategoryOrder(_, _)
CategoryOrder(results, seen) ==
    IF results = <<>> THEN seen
    ELSE CategoryOrder(Tail(results),
                       IF \E i \in DOMAIN seen : seen[i] = Head(results).category
                       THEN seen ELSE Append(seen, Head(results).category))

\* IsWeakInSession with a slip: a rate of exactly 0.6 counts as weak
IsWeakInSessionAtSixty(stats) == stats.total >= 3 /\ 5 * stats.correct <= 3 * stats.total

\* if stats['total'] >= 3: ... if correct_rate < 0.6
IsWeakInSession(stats) == stats.total >= 3 /\ 5 * stats.correct < 3 * stats.total

IdentifyWeakAreasInSession(results) ==
    LET of(c) == SelectSeq(results, LAMBDA r : r.category = c)
        weak(c) == IsWeakInSession([total |-> Len(of(c)), correct |-> CountCorrect(of(c))])
    IN SelectSeq(CategoryOrder(results, <<>>), weak)

\* the streak badge of _identify_achievements (if >= 10 ... elif >= 5 ...)
Badge(name, n) == [badge |-> name, n |-> n]

\* StreakBadges with a slip: the second test is an 'if', not an 'elif'
StreakBadgesBoth(max_streak) ==
    (IF max_streak >= 10 THEN <<Badge("streak_10", max_streak)>> ELSE <<>>)
    \o (IF max_streak >= 5 THEN <<Badge("streak_5", max_streak)>> ELSE <<>>)

StreakBadges(max_streak) ==
    IF max_streak >= 10 THEN <<Badge("streak_10", max_streak)>>
    ELSE IF max_streak >= 5 THEN <<Badge("streak_5", max_streak)>>
    ELSE <<>>

\* GradeBadges with a slip: the three tests are separate 'if's
GradeBadgesAll(correct_rate) ==
    (IF 10 * correct_rate.n >= 9 * correct_rate.d THEN <<Badge("grade_excellent", 0)>> ELSE <<>>)
    \o (IF 10 * correct_rate.n >= 8 * correct_rate.d THEN <<Badge("grade_good", 0)>> ELSE <<>>)
    \o (IF 10 * correct_rate.n >= 7 * correct_rate.d THEN <<Badge("grade_standard", 0)>> ELSE <<>>)

\* the grade badge of _identify_achievements (if >= 0.9 ... elif >= 0.8 ... elif
\* >= 0.7 ...); correct_rate is the quotient of two counts, and the double nearest
\* to it compares with 0.9, 0.8 and 0.7 as the quotient itself does
GradeBadges(correct_rate) ==
    IF 10 * correct_rate.n >= 9 * correct_rate.d THEN <<Badge("grade_excellent", 0)>>
    ELSE IF 10 * correct_rate.n >= 8 * correct_rate.d THEN <<Badge("grade_good", 0)>>
    ELSE IF 10 * correct_rate.n >= 7 * correct_rate.d THEN <<Badge("grade_standard", 0)>>
    ELSE <<>>

\* _identify_achievements: grade, streak, hard questions, fast answers
IdentifyAchievements(results, correct_rate) ==
    IF results = <<>> THEN <<>>
    ELSE LET high_difficulty_correct ==
                 Len(SelectSeq(results, LAMBDA r : r.difficulty_level >= 3 /\ r.is_correct))
             hard == IF high_difficulty_correct >= 3
                     THEN <<Badge("hard_questions", 0)>> ELSE <<>>
             response_times == ResponseTimes(results)
             avg_time == MeanOrZero(response_times)
             fast == IF response_times # <<>> /\ avg_time.n <= 30 * avg_time.d
                     THEN <<Badge("fast_answers", 0)>> ELSE <<>>
         IN GradeBadges(correct_rate) \o StreakBadges(CalculateMaxStreak(results))
            \o hard \o fast

\* CorrectAnswersOf with a slip: every answer is counted as correct
CountsEveryAnswer(results) == Len(results)

\* sum(1 for r in results if r.is_correct)
CorrectAnswersOf(results) == CountCorrect(results)

\* _calculate_session_summary; now is the clock when it runs
CalculateSessionSummary(results, start_time, now) ==
    IF results = <<>>
    THEN [total_questions |-> 0, correct_answers |-> 0, incorrect_answers |-> 0,
          correct_rate |-> FromInt(0), average_response_time |-> FromInt(0),
          total_time |-> 0, categories_studied |-> {}, weak_areas |-> <<>>,
          achievements |-> <<>>]
    ELSE LET total_questions == Len(results)
             correct_answers == CorrectAnswersOf(results)
             correct_rate == IF total_questions > 0 THEN Rat(correct_answers, total_questions)
                             ELSE FromInt(0)
         IN [total_questions |-> total_questions,
             correct_answers |-> correct_answers,
             incorrect_answers |-> total_questions - correct_answers,
             correct_rate |-> correct_rate,
             average_response_time |-> MeanOrZero(ResponseTimes(results)),
             total_time |-> IF start_time # NoneInt THEN now - start_time ELSE 0,
             categories_studied |-> {results[i].category : i \in
                                        {j \in DOMAIN results : TruthyStr(results[j].category)}},
             weak_areas |-> IdentifyWeakAreasInSession(results),
             achievements |-> IdentifyAchievements(results, correct_rate)]

\* ================================================== the study sessions
\* CREATE TABLE study_sessions (database.py 141-155): its columns
StudySessionsColumns == {"id", "session_name", "exam_category_id", "study_mode",
                         "total_questions", "correct_answers", "start_time", "end_time",
                         "duration", "created_at"}

\* The class body defines create_study_session and end_study_session twice; the
\* names are bound to the later definitions (database.py 1008-1034).
\* the columns their statements name
CreateStudySessionColumns == {"session_name", "exam_type", "study_mode", "total_questions",
                              "start_time", "status"}
EndStudySessionColumns == {"end_time", "correct_count", "status", "id"}

\* the parameters of the bound methods, all without a default
RecordAnswerParams == {"question_id", "user_answer", "is_correct", "study_mode"}
EndStudySessionParams == {"session_id", "correct_count"}

\* the keyword arguments ProgressTracker passes
TrackerRecordAnswerKwargs == {"question_id", "user_answer", "is_correct", "response_time",
                              "study_mode", "notes"}
TrackerEndStudySessionKwargs == {"session_id", "correct_answers"}

\* a call by keyword binds when it names exactly the parameters (none of them
\* has a default); otherwise Python raises TypeError before the body runs
Binds(kwargs, params) == kwargs = params

\* a statement runs when the table has every column it names; otherwise
\* sqlite3 raises OperationalError
Prepares(columns) == columns \subseteq StudySessionsColumns

\* DatabaseManager.create_study_session
CreateStudySession(sessions, session_name, exam_type, study_mode, total_questions) ==
    IF ~Prepares(CreateStudySessionColumns)
    THEN [raised |-> "OperationalError", sessions |-> sessions, value |-> NoneInt]
    ELSE LET session_id == Len(sessions) + 1 IN
         [raised |-> "none",
          sessions |-> Append(sessions,
                          [id |-> session_id, session_name |-> session_name,
                           exam_type |-> exam_type, study_mode |-> study_mode,
                           total_questions |-> total_questions, status |-> "active",
                           correct_count |-> NoneInt]),
          value |-> session_id]

\* DatabaseManager.end_study_session
EndStudySessionRow(sessions, session_id, correct_count) ==
    IF ~Prepares(EndStudySessionColumns)
    THEN [raised |-> "OperationalError", sessions |-> sessions]
    ELSE [raised |-> "none",
          sessions |-> [i \in DOMAIN sessions |->
                           IF sessions[i].id = session_id
                           THEN [sessions[i] EXCEPT !.correct_count = correct_count,
                                                    !.status = "completed"]
                           ELSE sessions[i]]]

\* DatabaseManager.get_question: the row joined with its exam category, or None
GetQuestion(qs, question_id) ==
    IF question_id \in DOMAIN qs /\ qs[question_id].exam_category_id \in 1..Len(ExamCategories)
    THEN qs[question_id] ELSE NoQuestion

\* --- ProgressTracker.  w is the tracker with the tables its calls write:
\* [current_session_id, current_session_results, session_start_time,
\*  study_sessions, db]; the result is the state left behind, the exception
\* raised ("none" when the call returns) and the value returned.
World == [current_session_id |-> current_session_id,
          current_session_results |-> current_session_results,
          session_start_time |-> session_start_time,
          study_sessions |-> study_sessions,
          db |-> Committed]

\* the two ValueErrors of the tracker, by their message
NoActiveSession == "ValueError: no active session"
QuestionNotFound == "ValueError: question not found"

\* ProgressTracker.end_study_session
EndStudySession(w, now) ==
    IF ~TruthyInt(w.current_session_id)
    THEN [w |-> w, raised |-> NoActiveSession, summary |-> NoSummary]
    ELSE LET summary == CalculateSessionSummary(w.current_session_results,
                                                w.session_start_time, now)
             ended == EndStudySessionRow(w.study_sessions, w.current_session_id,
                                         summary.correct_answers)
         IN IF ~Binds(TrackerEndStudySessionKwargs, EndStudySessionParams)
            THEN [w |-> w, raised |-> "TypeError", summary |-> NoSummary]
            ELSE IF ended.raised # "none"
            THEN [w |-> w, raised |-> ended.raised, summary |-> NoSummary]
            ELSE [w |-> [w EXCEPT !.study_sessions = ended.sessions,
                                  !.current_session_id = NoneInt,
                                  !.current_session_results = <<>>,
                                  !.session_start_time = NoneInt],
                  raised |-> "none", summary |-> summary]

\* start_study_session with the start time taken before the session is
\* created instead of after it
StartStudySessionEager(w, session_name, exam_type, study_mode, target_questions, now) ==
    LET previous == IF TruthyInt(w.current_session_id) THEN EndStudySession(w, now)
                    ELSE [w |-> w, raised |-> "none", summary |-> NoSummary]
        timed == [previous.w EXCEPT !.session_start_time = now]
        created == CreateStudySession(timed.study_sessions, session_name, exam_type,
                                      study_mode, target_questions)
    IN IF previous.raised # "none"
       THEN [w |-> previous.w, raised |-> previous.raised, value |-> NoneInt]
       ELSE IF created.raised # "none"
       THEN [w |-> timed, raised |-> created.raised, value |-> NoneInt]
       ELSE [w |-> [timed EXCEPT !.study_sessions = created.sessions,
                                 !.current_session_id = created.value,
                                 !.current_session_results = <<>>],
             raised |-> "none", value |-> created.value]

\* ProgressTracker.start_study_session
StartStudySession(w, session_name, exam_type, study_mode, target_questions, now) ==
    LET previous == IF TruthyInt(w.current_session_id) THEN EndStudySession(w, now)
                    ELSE [w |-> w, raised |-> "none", summary |-> NoSummary]
        created == CreateStudySession(previous.w.study_sessions, session_name, exam_type,
                                      study_mode, target_questions)
    IN IF previous.raised # "none"
       THEN [w |-> previous.w, raised |-> previous.raised, value |-> NoneInt]
       ELSE IF created.raised # "none"
       THEN [w |-> previous.w, raised |-> created.raised, value |-> NoneInt]
       ELSE [w |-> [previous.w EXCEPT !.study_sessions = created.sessions,
                                      !.current_session_id = created.value,
                                      !.current_session_results = <<>>,
                                      !.session_start_time = now],
             raised |-> "none", value |-> created.value]

\* ProgressTracker.record_answer
TrackerRecordAnswer(w, qs, question_id, user_answer, correct_answer, response_time) ==
    LET is_correct == user_answer = correct_answer
        stored == [w EXCEPT !.db = RecordAnswerOn(@, question_id, user_answer, is_correct,
                                                  "practice")]
        question == GetQuestion(qs, question_id)
        result == StudyResult(question_id, user_answer, correct_answer, response_time,
                              question.category)
    IN IF ~Binds(TrackerRecordAnswerKwargs, RecordAnswerParams)
       THEN [w |-> w, raised |-> "TypeError"]
       ELSE IF question = NoQuestion
       THEN [w |-> stored, raised |-> QuestionNotFound]
       ELSE IF TruthyInt(w.current_session_id)
       THEN [w |-> [stored EXCEPT !.current_session_results = Append(@, result)],
             raised |-> "none"]
       ELSE [w |-> stored, raised |-> "none"]

\* the tracker and the tables after a call
Leave(w) ==
    /\ current_session_id' = w.current_session_id
    /\ current_session_results' = w.current_session_results
    /\ session_start_time' = w.session_start_time
    /\ study_sessions' = w.study_sessions
    /\ Store(w.db)

\* the clock readings of the calls
Clock == {0, 1}

start_study_session(session_name, exam_type, study_mode, target_questions, now) ==
    /\ \A p \in Callers : pc[p] = "idle"
    /\ lock = 0
    /\ LET r == StartStudySession(World, session_name, exam_type, study_mode,
                                  target_questions, now)
       IN /\ Leave(r.w)
          /\ returned' = [NoReturn EXCEPT !.op = "start_study_session",
                                          !.raised = r.raised, !.number = r.value]
    /\ UNCHANGED <<questions, lock, pc, call, stat_row, txn, record_ids, outcome,
                   submitted, memory_cache>>
    /\ UNCHANGED web_vars

tracker_record_answer(question_id, user_answer, correct_answer, response_time) ==
    /\ \A p \in Callers : pc[p] = "idle"
    /\ lock = 0
    /\ LET r == TrackerRecordAnswer(World, questions, question_id, user_answer,
                                    correct_answer, response_time)
       IN /\ Leave(r.w)
          /\ returned' = [NoReturn EXCEPT !.op = "record_answer", !.raised = r.raised,
                                          !.number = question_id]
    /\ UNCHANGED <<questions, lock, pc, call, stat_row, txn, record_ids, outcome,
                   submitted, memory_cache>>
    /\ UNCHANGED web_vars

end_study_session(now) ==
    /\ \A p \in Callers : pc[p] = "idle"
    /\ lock = 0
    /\ LET r == EndStudySession(World, now)
       IN /\ Leave(r.w)
          /\ returned' = [NoReturn EXCEPT !.op = "end_study_session", !.raised = r.raised,
                                          !.summary = r.summary]
    /\ UNCHANGED <<questions, lock, pc, call, stat_row, txn, record_ids, outcome,
                   submitted, memory_cache>>
    /\ UNCHANGED web_vars

\* the tracker of main.py next to a client that writes answers through
\* DatabaseManager.record_answer
SessionNames == {"morning"}
ResponseTimeArgs == {NoneInt, 10}

NextTracker ==
    \/ \E n \in SessionNames, t \in {"FE"}, m \in StudyModes, now \in Clock :
          start_study_session(n, t, m, 20, now)
    \/ \E q \in QuestionIds, ua \in Choices, ca \in Choices, rt \in ResponseTimeArgs :
          tracker_record_answer(q, ua, ca, rt)
    \/ \E now \in Clock : end_study_session(now)
    \/ \E q \in QuestionIds, ua \in UserAnswers, ic \in BOOLEAN, m \in StudyModes :
          record_answer(1, q, ua, ic, m)

SpecTracker == Init /\ [][NextTracker]_vars

\* a summary of a session without answers
IsZeroSummary(summary) ==
    /\ summary.total_questions = 0
    /\ summary.correct_answers = 0
    /\ summary.incorrect_answers = 0
    /\ summary.correct_rate = FromInt(0)
    /\ summary.average_response_time = FromInt(0)
    /\ summary.weak_areas = <<>>
    /\ summary.achievements = <<>>

\* ================================================================== C15
\* C15: start_study_session on a tracker without a session, followed at once
\* by end_study_session: neither call raises, the summary has 0 questions,
\* 0 correct, 0 incorrect, rate 0, average response time 0, no weak areas and
\* no achievements, and the tracker is left without an active session.
C15_StartThenEnd ==
    [][\A n \in SessionNames, t \in {"FE"}, m \in StudyModes, now \in Clock :
          (start_study_session(n, t, m, 20, now) /\ current_session_id = NoneInt) =>
             LET ended == EndStudySession(World', now) IN
             /\ returned'.raised = "none"
             /\ ended.raised = "none"
             /\ IsZeroSummary(ended.summary)
             /\ ended.w.current_session_id = NoneInt
      ]_vars

C17_StartWhileActive ==
    [][\A n \in SessionNames, t \in {"FE"}, m \in StudyModes, now \in Clock :
          (start_study_session(n, t, m, 20, now) /\ current_session_id = NoneInt) =>
             LET answered == TrackerRecordAnswer(World', questions, 1, 1, 1, 10)
                 again == StartStudySession(answered.w, n, t, m, 20, now)
                 old == current_session_id'
             IN /\ TruthyInt(old)
                /\ Len(answered.w.current_session_results) = 1
                /\ again.raised = "none"
                /\ \E i \in DOMAIN again.w.study_sessions :
                      /\ again.w.study_sessions[i].id = old
                      /\ again.w.study_sessions[i].status = "completed"
                      /\ again.w.study_sessions[i].correct_count
                            = CountCorrect(answered.w.current_session_results)
                /\ TruthyInt(again.w.current_session_id)
                /\ again.w.current_session_id # old
                /\ again.w.current_session_results = <<>>
                /\ Cardinality({i \in DOMAIN again.w.study_sessions :
                                   again.w.study_sessions[i].status = "active"}) = 1
      ]_vars

\* ================================================================== C18
\* C18: ProgressTracker.record_answer on a tracker without an active session
\* (not started, or ended) raises the invalid-session-state error to its
\* caller and stores nothing.
C18_RecordNeedsActiveSession ==
    [][\A q \in QuestionIds, ua \in Choices, ca \in Choices, rt \in ResponseTimeArgs :
          (tracker_record_answer(q, ua, ca, rt) /\ ~TruthyInt(current_session_id)) =>
             /\ returned'.raised = NoActiveSession
             /\ learning_records' = learning_records
      ]_vars

\* =========================================== the summary of a result list
\* longest result list the summary functions are applied to
MaxResults == 11

\* a correct answer with a response time and an incorrect one without, both to
\* question 1
ResultKinds == {StudyResult(1, 1, 1, 10, Catalog[1].category),
                StudyResult(1, 2, 1, NoneInt, Catalog[1].category)}
ResultLists == SeqsOf(ResultKinds, MaxResults)

\* the result lists that answering leaves in the tracker of a session (id 1,
\* started at clock reading 0), before a summary function has run on them
InitSummary ==
    /\ study_sessions = <<>>
    /\ current_session_id = 1
    /\ current_session_results \in ResultLists
    /\ session_start_time = 0
    /\ memory_cache = {}
    /\ returned = NoReturn
    /\ session = NoSession
    /\ clock = 0
    /\ questions = Catalog
    /\ learning_records = <<>>
    /\ study_statistics = <<>>
    /\ sqlite_sequence = [learning_records |-> 0, study_statistics |-> 0]
    /\ lock = 0
    /\ pc = [p \in Callers |-> "idle"]
    /\ call = [p \in Callers |-> NoCall]
    /\ stat_row = [p \in Callers |-> NoStat]
    /\ txn = [p \in Callers |-> NoTxn]
    /\ record_ids = [p \in Callers |-> <<>>]
    /\ outcome = [p \in Callers |-> "none"]
    /\ submitted = 0

Returns(value) ==
    /\ returned' = value
    /\ UNCHANGED <<questions, learning_records, study_statistics, sqlite_sequence,
                   lock, pc, call, stat_row, txn, record_ids, outcome, submitted>>
    /\ UNCHANGED <<study_sessions, current_session_id, current_session_results,
                   session_start_time, memory_cache>>
    /\ UNCHANGED web_vars

calculate_session_summary(now) ==
    Returns([NoReturn EXCEPT !.op = "_calculate_session_summary",
                             !.summary = CalculateSessionSummary(current_session_results,
                                                                 session_start_time, now)])

calculate_max_streak ==
    Returns([NoReturn EXCEPT !.op = "_calculate_max_streak",
                             !.number = CalculateMaxStreak(current_session_results)])

identify_achievements ==
    Returns([NoReturn EXCEPT !.op = "_identify_achievements",
                             !.rows = IdentifyAchievements(current_session_results,
                                         IF current_session_results = <<>> THEN FromInt(0)
                                         ELSE Rat(CorrectAnswersOf(current_session_results),
                                                  Len(current_session_results)))])

NextSummary ==
    \/ \E now \in Clock : calculate_session_summary(now)
    \/ calculate_max_streak
    \/ identify_achievements

SpecSummary == InitSummary /\ [][NextSummary]_vars

\* the positions of the correct answers, and the longest run of them
CorrectAt(results) == {i \in DOMAIN results : results[i].is_correct}
LongestRun(results) ==
    LET runs == {n \in 0..Len(results) :
                   \E i \in 1..(Len(results) - n + 1) :
                      \A k \in i..(i + n - 1) : results[k].is_correct}
    IN CHOOSE n \in runs : \A m \in runs : m <= n

HasBadge(badges, name) == \E i \in DOMAIN badges : badges[i].badge = name

C20_StreakAndBadge ==
    /\ returned.op = "_calculate_max_streak" =>
          returned.number = LongestRun(current_session_results)
    /\ returned.op = "_identify_achievements" =>
          LET run == LongestRun(current_session_results) IN
          /\ HasBadge(returned.rows, "streak_10") <=> run >= 10
          /\ HasBadge(returned.rows, "streak_5") <=> (run >= 5 /\ run <= 9)
          /\ \A i \in DOMAIN returned.rows :
                returned.rows[i].badge \in {"streak_10", "streak_5"}
                   => returned.rows[i].n = run

\* ten correct answers with an incorrect one among them: a run of 9 at most,
\* awarded the streak-5 badge
C20_Witness ==
    /\ returned.op = "_identify_achievements"
    /\ Cardinality(CorrectAt(current_session_results)) >= 10
    /\ LongestRun(current_session_results) = 9
    /\ HasBadge(returned.rows, "streak_5")

\* ================================================================== C21
\* C21: the achievements of a session hold at most one of the three grade
\* badges, and it is the one of the highest threshold the correct rate reaches:
\* excellent from 0.9, good from 0.8 to below 0.9, standard from 0.7 to below
\* 0.8, none below 0.7.
GradeBadgeNames == {"grade_excellent", "grade_good", "grade_standard"}

GradeRule(badges, correct, total) ==
    /\ Cardinality({i \in DOMAIN badges : badges[i].badge \in GradeBadgeNames}) <= 1
    /\ HasBadge(badges, "grade_excellent") <=> (total > 0 /\ 10 * correct >= 9 * total)
    /\ HasBadge(badges, "grade_good")
          <=> (total > 0 /\ 10 * correct >= 8 * total /\ 10 * correct < 9 * total)
    /\ HasBadge(badges, "grade_standard")
          <=> (total > 0 /\ 10 * correct >= 7 * total /\ 10 * correct < 8 * total)

C21_OneGradeBadge ==
    LET correct == Cardinality(CorrectAt(current_session_results))
        total == Len(current_session_results)
    IN /\ returned.op = "_identify_achievements" => GradeRule(returned.rows, correct, total)
       /\ returned.op = "_calculate_session_summary" =>
             GradeRule(returned.summary.achievements, correct, total)

\* the summary of ten answers, nine of them correct: a rate of exactly 0.9, and
\* the excellent badge without the two lower ones
C21_Witness ==
    /\ returned.op = "_calculate_session_summary"
    /\ returned.summary.total_questions = 10
    /\ returned.summary.correct_answers = 9
    /\ HasBadge(returned.summary.achievements, "grade_excellent")
    /\ ~HasBadge(returned.summary.achievements, "grade_good")

\* ============================================ the weak areas of a session
\* longest answer list of a session with several categories
MaxSessionAnswers == 6

\* correct and incorrect answers in two categories, and an incorrect answer to
\* a question whose category is NULL
SessionResultKinds == {StudyResult(1, 1, 1, 10, "network"), StudyResult(1, 2, 1, 10, "network"),
                       StudyResult(4, 1, 1, 10, "database"), StudyResult(4, 2, 1, 10, "database"),
                       StudyResult(2, 2, 1, 10, NullStr)}
SessionResultLists == SeqsOf(SessionResultKinds, MaxSessionAnswers)
SessionCategories == {k.category : k \in SessionResultKinds}

\* the catalog these answers were given to: question 4 is a "database" question
SessionCatalog == Catalog @@ (4 :> [exam_category_id |-> 1, category |-> "database",
                                    correct_answer |-> 1])

\* the aggregate table next to the session: empty, or with "network" below the
\* sample gate and "database" at 0 of 3
SessionStatTables == {<<>>,
                      <<StatRow(1, 1, "network", 2, 0), StatRow(2, 1, "database", 3, 0),
                        StatRow(3, 1, "security", 3, 3)>>}

InitSession ==
    /\ study_sessions = <<>>
    /\ current_session_id = 1
    /\ current_session_results \in SessionResultLists
    /\ session_start_time = 0
    /\ memory_cache = {}
    /\ returned = NoReturn
    /\ session = NoSession
    /\ clock = 0
    /\ questions = SessionCatalog
    /\ learning_records = <<>>
    /\ study_statistics \in SessionStatTables
    /\ sqlite_sequence = [learning_records |-> 0, study_statistics |-> Len(study_statistics)]
    /\ lock = 0
    /\ pc = [p \in Callers |-> "idle"]
    /\ call = [p \in Callers |-> NoCall]
    /\ stat_row = [p \in Callers |-> NoStat]
    /\ txn = [p \in Callers |-> NoTxn]
    /\ record_ids = [p \in Callers |-> <<>>]
    /\ outcome = [p \in Callers |-> "none"]
    /\ submitted = 0

identify_weak_areas_in_session ==
    Returns([NoReturn EXCEPT !.op = "_identify_weak_areas_in_session",
                             !.rows = IdentifyWeakAreasInSession(current_session_results)])

NextSession ==
    \/ identify_weak_areas_in_session
    \/ \E now \in Clock : calculate_session_summary(now)

SpecSession == InitSession /\ [][NextSession]_vars

\* the answers of a list in one category
InCategory(results, c) == {i \in DOMAIN results : results[i].category = c}

\* ================================================================== C22
\* C22: a category is in the weak_areas of a session exactly when the session's
\* own answer list has at least 3 answers in that category and fewer than 60%
\* of them are correct, and it is there once; the aggregate table plays no part.
WeakAreasRule(weak_areas, results) ==
    /\ \A c \in SessionCategories :
          (\E k \in DOMAIN weak_areas : weak_areas[k] = c)
             <=> LET n == Cardinality(InCategory(results, c))
                     ok == Cardinality(InCategory(results, c) \cap CorrectAt(results))
                 IN n >= 3 /\ 10 * ok < 6 * n
    /\ \A k \in DOMAIN weak_areas : weak_areas[k] \in SessionCategories
    /\ \A j, k \in DOMAIN weak_areas : j # k => weak_areas[j] # weak_areas[k]

C22_WeakAreasOfSession ==
    /\ returned.op = "_identify_weak_areas_in_session" =>
          WeakAreasRule(returned.rows, current_session_results)
    /\ returned.op = "_calculate_session_summary" =>
          WeakAreasRule(returned.summary.weak_areas, current_session_results)

\* a session whose "network" answers are weak (1 of 3 correct) and whose
\* "database" answers are not (2 answers only), next to an aggregate table that
\* has "network" below its sample gate and "database" at 0 of 3
C22_Witness ==
    /\ returned.op = "_calculate_session_summary"
    /\ returned.summary.weak_areas = <<"network">>
    /\ Cardinality(InCategory(current_session_results, "network")) = 3
    /\ Cardinality(InCategory(current_session_results, "network")
                   \cap CorrectAt(current_session_results)) = 1
    /\ Cardinality(InCategory(current_session_results, "database")) = 2
    /\ InCategory(current_session_results, "database") \cap CorrectAt(current_session_results) = {}
    /\ \E i \in DOMAIN study_statistics :
          /\ study_statistics[i].category = "database"
          /\ study_statistics[i].total_questions = 3
          /\ study_statistics[i].correct_answers = 0

\* ================================================================== C23
\* C23: a write of the aggregates invalidates the cached results of the readers:
\* once a write has returned, the cache holds no unexpired get_weak_areas entry
\* that differs from what the query gives on the tables as they are, so the
\* next call never returns a list cached before the write.
C23_NoStaleEntry ==
    (\A p \in Callers : pc[p] = "idle") =>
       \A e \in memory_cache :
          ~e.expired =>
             e.value \in WeakAreaLists(study_statistics, e.key.exam_type, e.key.limit)

\* ================================================================== C24
\* C24: ProgressTracker.record_answer for a question that the catalog does not
\* hold stores the record and returns to its caller without an error.
C24_UnknownQuestionNotFatal ==
    [][\A q \in QuestionIds \ DOMAIN questions, ua \in Choices, ca \in Choices,
         rt \in ResponseTimeArgs :
          tracker_record_answer(q, ua, ca, rt) =>
             /\ returned'.raised = "none"
             /\ Len(learning_records') = Len(learning_records) + 1
             /\ learning_records'[Len(learning_records')].question_id = q
             /\ learning_records'[Len(learning_records')].is_correct = (ua = ca)
      ]_vars

\* ==================================================== the web session
\* session_service.py: SessionService works on the Flask session, a dict with
\* the keys session_id, questions, current_question and answers.

\* the columns of the questions table (database.py 105-122) and the columns
\* the bound get_random_questions (1036-1068) selects
QuestionsColumns == {"id", "exam_category_id", "year", "question_number", "question_text",
                     "choices", "correct_answer", "explanation", "category", "subcategory",
                     "difficulty_level", "source_url", "created_at", "updated_at"}
RandomQuestionsColumns == {"id", "exam_type", "year", "question_number", "question_text",
                           "choices", "correct_answer", "explanation", "category",
                           "subcategory", "difficulty_level"}

\* _generate_demo_questions: ids 1..count, correct_answer (i % 4) + 1
DemoQuestions(count) == [i \in 1..count |-> [id |-> i, correct_answer |-> ((i - 1) % 4) + 1]]

\* SessionService.start_study_session: the session row is created first, then
\* the questions are fetched; the session dict is written last
ServiceStartStudySession(sess, sessions, exam_type, mode, count) ==
    LET created == CreateStudySession(sessions, mode, exam_type, mode,
                                      IF mode = "mock_exam" THEN 80 ELSE count)
    IN IF created.raised # "none"
       THEN [session |-> sess, study_sessions |-> sessions, raised |-> created.raised]
       ELSE IF ~(RandomQuestionsColumns \subseteq QuestionsColumns)
       THEN [session |-> sess, study_sessions |-> created.sessions,
             raised |-> "OperationalError"]
       ELSE [session |-> [session_id |-> created.value,
                          questions |-> DemoQuestions(IF mode = "mock_exam" THEN 80 ELSE count),
                          current_question |-> 0, answers |-> <<>>],
             study_sessions |-> created.sessions, raised |-> "none"]

\* the keyword arguments process_answer passes to db.record_answer
ServiceRecordAnswerKwargs == {"question_id", "user_answer", "is_correct", "study_mode"}

\* IsLastQuestion with a slip: '>' for '>='
IsLastQuestionLate(current_idx, total) == current_idx + 1 > total

\* 'is_last_question': current_idx + 1 >= len(questions)
IsLastQuestion(current_idx, total) == current_idx + 1 >= total

\* SessionService.process_answer on the session sess and the database d.
\* Python indexes from 0: questions[current_idx] is the element current_idx + 1.
ProcessAnswer(sess, d, user_answer) ==
    IF sess = NoSession
    THEN [session |-> sess, db |-> d, raised |-> "KeyError", data |-> <<>>]
    ELSE IF sess.current_question >= Len(sess.questions)
    THEN [session |-> sess, db |-> d, raised |-> "IndexError", data |-> <<>>]
    ELSE LET current_idx == sess.current_question
             current_question == sess.questions[current_idx + 1]
             correct_answer == IF current_question.correct_answer = AbsentInt THEN 1
                               ELSE current_question.correct_answer
             is_correct == user_answer = correct_answer
             question_id == IF current_question.id = AbsentInt THEN 0
                            ELSE current_question.id
         IN IF question_id > 0 /\ ~Binds(ServiceRecordAnswerKwargs, RecordAnswerParams)
            THEN [session |-> sess, db |-> d, raised |-> "TypeError", data |-> <<>>]
            ELSE [session |-> [sess EXCEPT
                                  !.answers = Append(@, [question_id |-> question_id,
                                                         user_answer |-> user_answer,
                                                         correct_answer |-> correct_answer,
                                                         is_correct |-> is_correct]),
                                  !.current_question = current_idx + 1],
                  db |-> IF question_id > 0
                         THEN RecordAnswerOn(d, question_id, user_answer, is_correct, "practice")
                         ELSE d,
                  raised |-> "none",
                  data |-> [is_correct |-> is_correct, correct_answer |-> correct_answer,
                            is_last_question |-> IsLastQuestion(current_idx, Len(sess.questions))]]

service_start_study_session(exam_type, mode, count) ==
    /\ \A p \in Callers : pc[p] = "idle"
    /\ lock = 0
    /\ LET r == ServiceStartStudySession(session, study_sessions, exam_type, mode, count)
       IN /\ session' = r.session
          /\ study_sessions' = r.study_sessions
          /\ returned' = [NoReturn EXCEPT !.op = "SessionService.start_study_session",
                                          !.raised = r.raised,
                                          !.number = r.session.session_id]
    /\ UNCHANGED <<questions, learning_records, study_statistics, sqlite_sequence,
                   lock, pc, call, stat_row, txn, record_ids, outcome, submitted>>
    /\ UNCHANGED <<current_session_id, current_session_results, session_start_time,
                   memory_cache, clock>>

process_answer(user_answer) ==
    /\ \A p \in Callers : pc[p] = "idle"
    /\ lock = 0
    /\ LET r == ProcessAnswer(session, Committed, user_answer)
       IN /\ session' = r.session
          /\ Store(r.db)
          /\ returned' = [NoReturn EXCEPT !.op = "process_answer", !.raised = r.raised,
                                          !.number = user_answer, !.data = r.data]
    /\ UNCHANGED <<questions, lock, pc, call, stat_row, txn, record_ids, outcome, submitted>>
    /\ UNCHANGED <<study_sessions, current_session_id, current_session_results,
                   session_start_time, memory_cache, clock>>

\* longest question list of a web session
MaxQuestions == 2

\* the question dicts of a session: a catalog question, a question whose id the
\* catalog does not hold (the demo questions are numbered 1..count whatever the
\* catalog holds), and a dict without 'id' and 'correct_answer'
SessionQuestionKinds == {[id |-> 1, correct_answer |-> 1], [id |-> 3, correct_answer |-> 2],
                         [id |-> AbsentInt, correct_answer |-> AbsentInt]}

\* the session as lines 56-60 of start_study_session write it
StartedSessions ==
    {[session_id |-> 1, questions |-> qs, current_question |-> 0, answers |-> <<>>] :
        qs \in SeqsOf(SessionQuestionKinds, MaxQuestions) \ {<<>>}}

\* the answers a form posts: int(request.form.get('answer')), any integer; the
\* choices are 1..4
ChoiceRange == 1..4
PostedAnswers == {1, 2, 5}
\* the values of StudyMode
ValidStudyModes == {"practice", "mock_exam", "review", "weak_area"}

InitService ==
    /\ study_sessions = <<>>
    /\ current_session_id = NoneInt
    /\ current_session_results = <<>>
    /\ session_start_time = NoneInt
    /\ memory_cache = {}
    /\ returned = NoReturn
    /\ session \in StartedSessions \cup {NoSession}
    /\ clock = 0
    /\ questions = Catalog
    /\ learning_records = <<>>
    /\ study_statistics = <<>>
    /\ sqlite_sequence = [learning_records |-> 0, study_statistics |-> 0]
    /\ lock = 0
    /\ pc = [p \in Callers |-> "idle"]
    /\ call = [p \in Callers |-> NoCall]
    /\ stat_row = [p \in Callers |-> NoStat]
    /\ txn = [p \in Callers |-> NoTxn]
    /\ record_ids = [p \in Callers |-> <<>>]
    /\ outcome = [p \in Callers |-> "none"]
    /\ submitted = 0

\* the web client: sessions are started and answers are posted
NextService ==
    \/ \E t \in {"FE"}, m \in ValidStudyModes, n \in {MaxQuestions} :
          service_start_study_session(t, m, n)
    \/ \E ua \in PostedAnswers : process_answer(ua)

SpecService == InitService /\ [][NextService]_vars

\* the web client next to a caller that hands DatabaseManager.record_answer an
\* answer outside the choices or a study_mode that is none of the four
MalformedCalls == {[user_answer |-> 5, study_mode |-> "practice"],
                   [user_answer |-> 1, study_mode |-> "exam"]}

NextValidation ==
    \/ \E ua \in PostedAnswers : process_answer(ua)
    \/ \E c \in MalformedCalls : record_answer(1, 1, c.user_answer, FALSE, c.study_mode)

SpecValidation == InitService /\ [][NextValidation]_vars

\* ================================================================== C25
\* C25: an answer outside the choices 1..4 and a study_mode outside {practice,
\* mock_exam, review, weak_area} are refused before anything is written:
\* process_answer and record_answer fail with a validation error and leave
\* learning_records and study_statistics as they are.
C25_MalformedRejected ==
    [][/\ \A ua \in PostedAnswers \ ChoiceRange :
             (process_answer(ua) /\ session # NoSession
                                 /\ session.current_question < Len(session.questions)) =>
                /\ returned'.raised \notin {"none"}
                /\ learning_records' = learning_records
                /\ study_statistics' = study_statistics
       /\ \A c \in MalformedCalls :
             (record_answer(1, 1, c.user_answer, FALSE, c.study_mode)
                /\ (c.user_answer \notin ChoiceRange \/ c.study_mode \notin ValidStudyModes)) =>
                /\ outcome'[1] # "ok"
                /\ learning_records' = learning_records
                /\ study_statistics' = study_statistics
      ]_vars

\* ================================================================== C26
\* C26: a process_answer call on a session with an unanswered question appends
\* exactly one answer, with is_correct = (user_answer = the correct answer of
\* the current question), writes it to learning_records exactly once when the
\* question id is above 0 and not at all otherwise, advances current_question
\* by 1, and returns is_last_question exactly for the last question; in every
\* state current_question is the number of stored answers and at most the
\* number of questions.
SessionInStep ==
    session # NoSession =>
       /\ session.current_question = Len(session.answers)
       /\ session.current_question <= Len(session.questions)

C26_OneAnswerPerCall ==
    /\ []SessionInStep
    /\ [][\A ua \in PostedAnswers :
             (process_answer(ua) /\ session # NoSession
                                 /\ session.current_question < Len(session.questions)) =>
                LET q == session.questions[session.current_question + 1]
                    right == IF q.correct_answer = AbsentInt THEN 1 ELSE q.correct_answer
                    stored == learning_records'[Len(learning_records')]
                IN /\ returned'.raised = "none"
                   /\ Len(session'.answers) = Len(session.answers) + 1
                   /\ SubSeq(session'.answers, 1, Len(session.answers)) = session.answers
                   /\ session'.answers[Len(session'.answers)].user_answer = ua
                   /\ session'.answers[Len(session'.answers)].is_correct = (ua = right)
                   /\ returned'.data.is_correct = (ua = right)
                   /\ session'.current_question = session.current_question + 1
                   /\ session'.questions = session.questions
                   /\ returned'.data.is_last_question
                         <=> (session.current_question + 1 = Len(session.questions))
                   /\ IF q.id # AbsentInt /\ q.id > 0
                      THEN /\ Len(learning_records') = Len(learning_records) + 1
                           /\ SubSeq(learning_records', 1, Len(learning_records))
                                 = learning_records
                           /\ stored.question_id = q.id
                           /\ stored.user_answer = ua
                           /\ stored.is_correct = (ua = right)
                      ELSE learning_records' = learning_records
         ]_vars

\* the second of two questions has been answered: the call reported the last
\* question, both answers are in the session, one correct and one not, and
\* the answer to the question with an id is stored while the one without is not
C26_Witness ==
    /\ returned.op = "process_answer"
    /\ returned.raised = "none"
    /\ returned.data.is_last_question
    /\ session.current_question = 2
    /\ Len(session.answers) = 2
    /\ session.answers[1].is_correct /\ ~session.answers[2].is_correct
    /\ session.answers[1].question_id = 0
    /\ Len(learning_records) = 1
    /\ learning_records[1].question_id = session.answers[2].question_id

\* ================================================ the progress service
\* progress_service.py: ProgressService.get_progress_data reads get_statistics,
\* get_weak_areas and get_progress_over_time, each behind cached_method.

\* ORDER BY ec.name, ss.category (BINARY collation): the place of each exam
\* name among the four names of _insert_initial_data, by exam_categories.id,
\* and the place of each category of the tables below; NULL sorts first
ExamNameRank == <<2, 3, 1, 4>>
CategoryRank == (NullStr :> 0) @@ ("algorithm" :> 1) @@ ("database" :> 2)
                @@ ("network" :> 3) @@ ("security" :> 4)

\* the rows of get_statistics before ordering: the JOIN and the WHERE
StatisticsRows(ss, exam_type) ==
    {i \in 1..Len(ss) :
        /\ ss[i].exam_category_id \in 1..Len(ExamCategories)
        /\ TruthyStr(exam_type) => ExamCategories[ss[i].exam_category_id].code = exam_type}

\* a row comes before another in ORDER BY ec.name, ss.category (rows equal in
\* both are taken in table order)
StatisticsBefore(ss, i, j) ==
    LET ni == ExamNameRank[ss[i].exam_category_id]
        nj == ExamNameRank[ss[j].exam_category_id]
        ci == CategoryRank[ss[i].category]
        cj == CategoryRank[ss[j].category]
    IN ni < nj \/ (ni = nj /\ ci < cj) \/ (ni = nj /\ ci = cj /\ i < j)

RECURSIVE StatisticsSorted(_, _)
StatisticsSorted(ss, rows) ==
    IF rows = {} THEN <<>>
    ELSE LET first == CHOOSE i \in rows : \A j \in rows \ {i} : StatisticsBefore(ss, i, j)
         IN <<[WeakArea(ss[first]) EXCEPT
                  !.correct_rate = IF ss[first].total_questions > 0
                                   THEN RoundedRate(ss[first]) ELSE 0]>>
            \o StatisticsSorted(ss, rows \ {first})

\* DatabaseManager.get_statistics: always a list
GetStatistics(ss, exam_type) == StatisticsSorted(ss, StatisticsRows(ss, exam_type))

\* DatabaseManager.get_progress_over_time: one row per day of the records that
\* join questions and exam_categories.  The records of the model are written
\* on one day inside the window, so the rows are none or one.
GetProgressOverTime(lr, qs, exam_type) ==
    LET rows == {i \in 1..Len(lr) :
                   /\ lr[i].question_id \in DOMAIN qs
                   /\ qs[lr[i].question_id].exam_category_id \in 1..Len(ExamCategories)
                   /\ TruthyStr(exam_type) =>
                         ExamCategories[qs[lr[i].question_id].exam_category_id].code = exam_type}
        correct == Cardinality({i \in rows : lr[i].is_correct})
    IN IF rows = {} THEN <<>>
       ELSE <<[study_date |-> "today", total_questions |-> Cardinality(rows),
               correct_answers |-> correct,
               correct_rate |-> (2000 * correct + Cardinality(rows))
                                   \div (2 * Cardinality(rows))]>>

\* one call through cached_method: a live entry is returned without touching
\* the database; otherwise the query runs, raises when the database fails, and
\* its result is cached
CachedRead(cache, key, fresh, fails) ==
    IF Live(cache, key) # {}
    THEN [cache |-> cache, value |-> (CHOOSE e \in Live(cache, key) : TRUE).value,
          raised |-> FALSE]
    ELSE IF fails THEN [cache |-> cache, value |-> <<>>, raised |-> TRUE]
    ELSE [cache |-> CacheSet(cache, key, fresh), value |-> fresh, raised |-> FALSE]

\* the dict of the except branch
DefaultStatistics == [total_questions |-> 0, total_correct |-> 0,
                      overall_correct_rate |-> 0, categories_studied |-> 0]
ProgressDataOnError == [overall_statistics |-> DefaultStatistics,
                        statistics |-> DefaultStatistics,
                        weak_areas |-> <<>>, progress_over_time |-> <<>>]

\* ProgressService.get_progress_data.  weak is the list the weak-area query
\* gives when it runs; failing is the database call (1..3) at which the
\* database fails when it is reached, 0 for none.  The result: the cache left
\* behind, the dict returned, the logger.error calls, and the call that raised.
GetProgressData(cache, ss, lr, qs, exam_type, days, weak, failing) ==
    LET stats == CachedRead(cache, CacheKey("get_statistics", exam_type, NoneInt),
                            GetStatistics(ss, exam_type), failing = 1)
        weak_areas == CachedRead(stats.cache, CacheKey("get_weak_areas", exam_type, 5),
                                 weak, failing = 2)
        progress_over_time ==
            CachedRead(weak_areas.cache, CacheKey("get_progress_over_time", exam_type, days),
                       GetProgressOverTime(lr, qs, exam_type), failing = 3)
        \* if not stats or isinstance(stats, list): the default dict
        statistics == DefaultStatistics
    IN IF stats.raised
       THEN [cache |-> stats.cache, data |-> ProgressDataOnError, errors |-> 1, raised_in |-> 1]
       ELSE IF weak_areas.raised
       THEN [cache |-> weak_areas.cache, data |-> ProgressDataOnError, errors |-> 1,
             raised_in |-> 2]
       ELSE IF progress_over_time.raised
       THEN [cache |-> progress_over_time.cache, data |-> ProgressDataOnError, errors |-> 1,
             raised_in |-> 3]
       ELSE [cache |-> progress_over_time.cache,
             data |-> [overall_statistics |-> statistics, statistics |-> statistics,
                       weak_areas |-> weak_areas.value,
                       progress_over_time |-> progress_over_time.value],
             errors |-> 0, raised_in |-> 0]

get_progress_data(exam_type, days, failing) ==
    /\ \A p \in Callers : pc[p] = "idle"
    /\ \E weak \in WeakAreaLists(study_statistics, exam_type, 5) :
          LET r == GetProgressData(memory_cache, study_statistics, learning_records,
                                   questions, exam_type, days, weak, failing)
          IN /\ memory_cache' = r.cache
             /\ returned' = [NoReturn EXCEPT !.op = "get_progress_data", !.data = r.data,
                                             !.errors = r.errors, !.number = r.raised_in]
    /\ UNCHANGED <<questions, learning_records, study_statistics, sqlite_sequence,
                   lock, pc, call, stat_row, txn, record_ids, outcome, submitted>>
    /\ UNCHANGED <<study_sessions, current_session_id, current_session_results,
                   session_start_time>>
    /\ UNCHANGED web_vars

\* the progress page next to a client that answers question 1
NextProgress ==
    \/ \E t \in {"FE"}, failing \in 0..3 : get_progress_data(t, 30, failing)
    \/ ttl_passes
    \/ \E ic \in BOOLEAN : submitted < 1 /\ record_answer(1, 1, 1, ic, "practice")

SpecProgress == InitWeak /\ [][NextProgress]_vars

\* ================================================================== C27
\* C27: when a database call raises inside get_progress_data, the call still
\* returns to its caller, it has logged exactly one error, and what it returns
\* is the empty dict {}.
C27_ErrorGivesEmptyDict ==
    (returned.op = "get_progress_data" /\ returned.number # 0) =>
       /\ returned.raised = "none"
       /\ returned.errors = 1
       /\ DOMAIN returned.data = {}

\* ================================================================== C28
\* the writers and the two deletions, without any other maintenance
NextAggregates ==
    \/ \E ua \in UserAnswers, ic \in BOOLEAN, m \in StudyModes :
          record_answer(1, 1, ua, ic, m)
    \/ \E b \in BatchesUpTo[Min({1, Budget})] : bulk_record_answers_call(1, b)
    \/ bulk_insert(1)
    \/ bulk_stats(1)
    \/ bulk_commit(1)
    \/ bulk_except(1)
    \/ \E q \in {1, 3} : delete_question(q)
    \/ \E n \in 0..MaxAnswers : cleanup_old_records(n)

SpecAggregates == Init /\ [][NextAggregates]_vars

\* the stored records that join a question of the key of an aggregate row
RecordsOfRow(lr, qs, row) ==
    {j \in 1..Len(lr) :
        /\ lr[j].question_id \in DOMAIN qs
        /\ qs[lr[j].question_id].exam_category_id = row.exam_category_id
        /\ qs[lr[j].question_id].category = row.category}

\* C28: whenever no call is in progress, after any sequence of record_answer,
\* bulk_record_answers, cleanup_old_records and delete_question, the
\* total_questions of every row of study_statistics equals the number of
\* stored records of the row's key.
C28_TotalsMatchRecords ==
    (\A p \in Callers : pc[p] = "idle") =>
       \A i \in 1..Len(study_statistics) :
          study_statistics[i].total_questions
             = Cardinality(RecordsOfRow(learning_records, questions, study_statistics[i]))

\* ================================================================== C29
\* the three fields of the tracker outside a session
SessionFieldsCleared ==
    current_session_id = NoneInt =>
       /\ current_session_results = <<>>
       /\ session_start_time = NoneInt

\* C29: whenever current_session_id is None, current_session_results is empty
\* and session_start_time is None; and a ProgressTracker.record_answer made
\* with no active session leaves current_session_results as it was.
C29_NoSessionNoResults ==
    /\ []SessionFieldsCleared
    /\ [][\A q \in QuestionIds, ua \in Choices, ca \in Choices, rt \in ResponseTimeArgs :
            (tracker_record_answer(q, ua, ca, rt) /\ current_session_id = NoneInt) =>
               current_session_results' = current_session_results
        ]_vars

\* a start_study_session has been tried and has left no session, and a
\* record_answer for a question of the catalog is made after it outside any
\* session
C29_Witness ==
    /\ returned.op = "record_answer"
    /\ returned.number \in DOMAIN questions
    /\ current_session_id = NoneInt
    /\ current_session_results = <<>>
    /\ session_start_time = NoneInt

\* =============================================== the memory cache by size
\* cache_manager.py, CacheManager without Redis.  Here memory_cache is the dict
\* _memory_cache as Python keeps it: its items in insertion order, each with
\* its key, its value and its expires_at; clock is datetime.now().

\* the size above which set() cleans up, and the number of items the cleanup
\* keeps (1000 and 500 in the source, scaled down by 250)
MemoryCacheLimit == 4
KeepCount == 2

\* last reading of the clock
MaxClock == 1

CacheKeys == 1..(MemoryCacheLimit + 1)
CachedValues == {1}
Ttls == {1, 2}

ItemKeys(cache) == {cache[i].key : i \in 1..Len(cache)}

\* self._memory_cache[key] = (value, expires_at): a key of the dict keeps its
\* place, a new key goes to the end
StoreItem(cache, key, value, expires_at) ==
    IF key \in ItemKeys(cache)
    THEN [i \in 1..Len(cache) |->
             IF cache[i].key = key
             THEN [key |-> key, value |-> value, expires_at |-> expires_at]
             ELSE cache[i]]
    ELSE Append(cache, [key |-> key, value |-> value, expires_at |-> expires_at])

\* the items left when the expired ones (now >= expires_at) are deleted
Unexpired(cache, now) == SelectSeq(cache, LAMBDA e : ~(now >= e.expires_at))

\* sorted(items, key=expires_at): ascending, items of equal expiry in the
\* order of the dict
RECURSIVE SortedByExpiresAt(_)
SortedByExpiresAt(items) ==
    IF items = <<>> THEN <<>>
    ELSE LET first == CHOOSE i \in 1..Len(items) :
                         \A j \in 1..Len(items) :
                            \/ items[i].expires_at < items[j].expires_at
                            \/ items[i].expires_at = items[j].expires_at /\ i <= j
         IN <<items[first]>>
            \o SortedByExpiresAt(SubSeq(items, 1, first - 1)
                                 \o SubSeq(items, first + 1, Len(items)))

\* CacheManager._cleanup_memory_cache
CleanupMemoryCache(cache, now) ==
    LET unexpired == Unexpired(cache, now)
        sorted_items == SortedByExpiresAt(unexpired)
        deleted == ItemKeys(SubSeq(sorted_items, KeepCount + 1, Len(sorted_items)))
    IN IF Len(unexpired) > MemoryCacheLimit
       THEN SelectSeq(unexpired, LAMBDA e : e.key \notin deleted)
       ELSE unexpired

\* CacheManager.set on the memory cache
MemoryCacheSet(cache, key, value, ttl, now) ==
    LET stored == StoreItem(cache, key, value, now + ttl)
    IN IF Len(stored) > MemoryCacheLimit THEN CleanupMemoryCache(stored, now) ELSE stored

\* CacheManager.get on the memory cache: the value of a live item; an expired
\* item is deleted and the default (None) returned
MemoryCacheGet(cache, key, now) ==
    IF key \notin ItemKeys(cache) THEN [cache |-> cache, value |-> NoneInt]
    ELSE LET e == cache[CHOOSE i \in 1..Len(cache) : cache[i].key = key]
         IN IF now < e.expires_at THEN [cache |-> cache, value |-> e.value]
            ELSE [cache |-> SelectSeq(cache, LAMBDA x : x.key # key), value |-> NoneInt]

CacheUnchanged ==
    /\ UNCHANGED <<questions, learning_records, study_statistics, sqlite_sequence,
                   lock, pc, call, stat_row, txn, record_ids, outcome, submitted>>
    /\ UNCHANGED <<study_sessions, current_session_id, current_session_results,
                   session_start_time, session>>

cache_set(key, value, ttl) ==
    /\ memory_cache' = MemoryCacheSet(memory_cache, key, value, ttl, clock)
    /\ returned' = [NoReturn EXCEPT !.op = "set", !.number = key]
    /\ UNCHANGED clock
    /\ CacheUnchanged

cache_get(key) ==
    /\ LET r == MemoryCacheGet(memory_cache, key, clock)
       IN /\ memory_cache' = r.cache
          /\ returned' = [NoReturn EXCEPT !.op = "get", !.number = r.value]
    /\ UNCHANGED clock
    /\ CacheUnchanged

\* time passes
tick ==
    /\ clock < MaxClock
    /\ clock' = clock + 1
    /\ UNCHANGED <<memory_cache, returned>>
    /\ CacheUnchanged

\* the state after the import of cache_manager: an empty dict
InitCache ==
    /\ study_sessions = <<>>
    /\ current_session_id = NoneInt
    /\ current_session_results = <<>>
    /\ session_start_time = NoneInt
    /\ memory_cache = <<>>
    /\ returned = NoReturn
    /\ session = NoSession
    /\ clock = 0
    /\ questions = Catalog
    /\ learning_records = <<>>
    /\ study_statistics = <<>>
    /\ sqlite_sequence = [learning_records |-> 0, study_statistics |-> 0]
    /\ lock = 0
    /\ pc = [p \in Callers |-> "idle"]
    /\ call = [p \in Callers |-> NoCall]
    /\ stat_row = [p \in Callers |-> NoStat]
    /\ txn = [p \in Callers |-> NoTxn]
    /\ record_ids = [p \in Callers |-> <<>>]
    /\ outcome = [p \in Callers |-> "none"]
    /\ submitted = 0

NextCache ==
    \/ \E key \in CacheKeys, value \in CachedValues, ttl \in Ttls : cache_set(key, value, ttl)
    \/ \E key \in CacheKeys : cache_get(key)
    \/ tick

SpecCache == InitCache /\ [][NextCache]_vars

\* ================================================================== C30
\* C30: a set() that takes the memory cache above its size limit removes the
\* expired items first; if the cache is still above the limit it evicts the
\* items with the earliest expiry until KeepCount remain, so no evicted item
\* expires later than an item that is kept; and a get() of the key just
\* written, at the same clock reading, returns the value written.
C30_EvictsOldestKeepsWritten ==
    [][\A key \in CacheKeys, value \in CachedValues, ttl \in Ttls :
          (/\ cache_set(key, value, ttl)
           /\ Len(StoreItem(memory_cache, key, value, clock + ttl)) > MemoryCacheLimit) =>
             LET stored == StoreItem(memory_cache, key, value, clock + ttl)
                 unexpired == Unexpired(stored, clock)
                 kept == {memory_cache'[i] : i \in 1..Len(memory_cache')}
                 evicted == {unexpired[i] : i \in 1..Len(unexpired)} \ kept
             IN /\ kept \subseteq {unexpired[i] : i \in 1..Len(unexpired)}
                /\ Len(unexpired) > MemoryCacheLimit => Len(memory_cache') = KeepCount
                /\ Len(unexpired) <= MemoryCacheLimit => evicted = {}
                /\ \A e \in evicted, f \in kept : e.expires_at <= f.expires_at
                /\ MemoryCacheGet(memory_cache', key, clock').value = value
      ]_vars

====
